---- MODULE Spec2Model ----
(***************************************************************************)
(* A model of the liquidity-pool scraper (src/scraper): the retry wrapper, *)
(* the rate limiter, the RedStone price oracle, the protocol fetchers with *)
(* their fallback chains, the metrics calculator, the orchestrator's       *)
(* batched computation phase, its pipeline from collection to the exit     *)
(* code, one batch of concurrent computations sharing the price cache, and *)
(* the parsers that turn an entry of a response into a pool record.        *)
(* Each component is a state machine of its                                *)
(* own with its own specification (SpecRetry, SpecLimiter, ...); the       *)
(* variables of the other components stay at their idle values.            *)
(***************************************************************************)
EXTENDS Integers, Sequences, FiniteSets, TLC

VARIABLES
    \* ---- retry_on_failure.wrapper (utils/helpers.py) ----
    rt_max,      \* max_retries of the decorator
    rt_delay,    \* delay of the decorator
    rt_attempt,  \* the for-loop variable `attempt`
    rt_pc,       \* "call" | "sleep" | "next" | "returned" | "raised"
    rt_log,      \* outcome of every invocation of func so far, in order
    rt_sleeps,   \* every asyncio.sleep duration so far, in order
    rt_last,     \* last_exception
    rt_out,      \* what the wrapper handed to its caller
    \* ---- RateLimiter (utils/helpers.py), shared by concurrent coroutines ----
    rl_now,      \* time.time(), in ticks
    rl_last,     \* self.last_call
    rl_pc,       \* per coroutine: "idle" | "sleeping"
    rl_wake,     \* per coroutine: the time its asyncio.sleep may end
    rl_returns,  \* the times at which wait() returned, in order
    \* ---- RedStoneService (services/redstone.py) ----
    po_now,      \* datetime.now(), in minutes
    po_cache,    \* self.price_cache: cache key -> NoEntry | [price, ts]
    po_call,     \* per caller: the get_price / get_prices call it is in
    po_hist,     \* the completed calls, in order of completion
    \* ---- protocol fetchers (services/{uniswap_v3,sushiswap,curve,pancakeswap}.py) ----
    ft_proto,    \* the fetcher whose get_top_pools / get_all_pools is called
    ft_limit,    \* the argument `limit` of get_top_pools
    ft_pc,       \* the tier about to be queried | "<tier>_returned" | "failed" | "returned" | "raised"
    ft_attempt,  \* `attempt` of the retry wrapper around the call
    ft_sleeps,   \* the backoff sleeps of the wrapper so far, in order
    ft_resp,     \* the response of the source queried last
    ft_log,      \* the tiers queried by the current invocation, in order
    ft_tried,    \* per tier: how often the call has queried it, all invocations
    ft_out,      \* the pools handed to the orchestrator
    \* ---- LiquidityPoolScraper.calculate_all_metrics (main.py) ----
    ba_n,        \* len(all_pools); pool k is all_pools[k - 1]
    ba_i,        \* the loop variable i (start of the current batch)
    ba_pc,       \* "loop" | "gather" | "pause" | "returned"
    ba_tasks,    \* per pool of the current batch: "running" | "ok" | "raised"
    ba_raised,   \* the pools whose computation raised so far
    ba_all_metrics, \* all_metrics: the pool each PoolMetrics was computed from
    \* ---- MetricsCalculator (calculators/metrics.py) ----
    mc_pool,     \* the pool record handed to calculate_pool_metrics
    mc_prices,   \* what get_prices answers for the pool's two symbols
    mc_pc,       \* "call" | "returned" | "raised"
    mc_out,      \* the PoolMetrics returned
    \* ---- LiquidityPoolScraper.run_complete_analysis and main (main.py) ----
    pl_protocols,   \* self.protocols
    pl_networks,    \* self.networks
    pl_pc,          \* "collect" | "compute" | "organize" | "export" | "returned" | "raised" | "exited"
    pl_k,           \* the combination collect_all_pool_data is at
    pl_all_pools,   \* all_pools
    pl_fetches,     \* the fetcher calls made so far, in order, with their outcome
    pl_all_metrics, \* all_metrics
    pl_breakdown,   \* protocol_breakdown
    pl_out,         \* what run_complete_analysis returned or raised
    pl_exit,        \* the exit code of main
    \* ---- one batch of calculate_all_metrics with its get_prices calls (main.py, services/redstone.py) ----
    ga_pools,    \* the pools of the batch
    ga_resp,     \* what the remote price service answers, the same to every lookup
    ga_cache,    \* self.price_cache
    ga_task,     \* per coroutine: where it is, and the hits and misses of its cache check
    ga_results,  \* per coroutine: the PoolMetrics it returned
    ga_pc,       \* "gather" | "organized"
    ga_out,      \* protocol_breakdown
    \* ---- the parsers of the fetchers (services/*.py) ----
    pr_tier,     \* the source whose entry is parsed
    pr_entry,    \* the entry
    pr_pc,       \* "parse" | "parsed"
    pr_pool      \* the pool record built, or None

retryVars == <<rt_max, rt_delay, rt_attempt, rt_pc, rt_log, rt_sleeps, rt_last, rt_out>>

limiterVars == <<rl_now, rl_last, rl_pc, rl_wake, rl_returns>>

oracleVars == <<po_now, po_cache, po_call, po_hist>>

fetchVars == <<ft_proto, ft_limit, ft_pc, ft_attempt, ft_sleeps, ft_resp, ft_log, ft_tried, ft_out>>

batchVars == <<ba_n, ba_i, ba_pc, ba_tasks, ba_raised, ba_all_metrics>>

metricsVars == <<mc_pool, mc_prices, mc_pc, mc_out>>

pipelineVars == <<pl_protocols, pl_networks, pl_pc, pl_k, pl_all_pools, pl_fetches,
                  pl_all_metrics, pl_breakdown, pl_out, pl_exit>>

gatherVars == <<ga_pools, ga_resp, ga_cache, ga_task, ga_results, ga_pc, ga_out>>

parseVars == <<pr_tier, pr_entry, pr_pc, pr_pool>>

vars == <<retryVars, limiterVars, oracleVars, fetchVars, batchVars, metricsVars,
          pipelineVars, gatherVars, parseVars>>

\* What the actions of one component leave alone: the other components.
notRetry == <<limiterVars, oracleVars, fetchVars, batchVars, metricsVars, pipelineVars, gatherVars, parseVars>>

notLimiter == <<retryVars, oracleVars, fetchVars, batchVars, metricsVars, pipelineVars, gatherVars, parseVars>>

notOracle == <<retryVars, limiterVars, fetchVars, batchVars, metricsVars, pipelineVars, gatherVars, parseVars>>

notFetch == <<retryVars, limiterVars, oracleVars, batchVars, metricsVars, pipelineVars, gatherVars, parseVars>>

notBatch == <<retryVars, limiterVars, oracleVars, fetchVars, metricsVars, pipelineVars, gatherVars, parseVars>>

notMetrics == <<retryVars, limiterVars, oracleVars, fetchVars, batchVars, pipelineVars, gatherVars, parseVars>>

notPipeline == <<retryVars, limiterVars, oracleVars, fetchVars, batchVars, metricsVars, gatherVars, parseVars>>

notGather == <<retryVars, limiterVars, oracleVars, fetchVars, batchVars, metricsVars, pipelineVars,
              parseVars>>

notParse == <<retryVars, limiterVars, oracleVars, fetchVars, batchVars, metricsVars, pipelineVars,
             gatherVars>>

\* The Python value None.
None == "None"

(***************************************************************************)
(* retry_on_failure                                                        *)
(***************************************************************************)

\* Largest max_retries the model decorates an operation with.
MaxRetriesN == 3

\* The delays the model decorates an operation with.
Delays == {1, 2}

\* The exceptions an invocation of the wrapped operation may raise.
Exceptions == {"e1", "e2"}

RECURSIVE Pow2(_)
Pow2(k) == IF k = 0 THEN 1 ELSE 2 * Pow2(k - 1)

\* range(max_retries) instead of range(max_retries + 1).
RetryRangeShort(n) == n

\* for attempt in range(max_retries + 1): the number of iterations.
RetryRange(n) == n + 1

\* delay * (attempt + 1): a backoff that grows linearly.
BackoffLinear(delay, attempt) == delay * (attempt + 1)

\* delay * (2 ** attempt)
BackoffDelay(delay, attempt) == delay * Pow2(attempt)

RetryInit ==
    /\ rt_max \in 0..MaxRetriesN
    /\ rt_delay \in Delays
    /\ rt_attempt = 0
    /\ rt_pc = "call"
    /\ rt_log = <<>>
    /\ rt_sleeps = <<>>
    /\ rt_last = None
    /\ rt_out = None

RetryIdle ==
    /\ rt_max = 0
    /\ rt_delay = 1
    /\ rt_attempt = 0
    /\ rt_pc = "idle"
    /\ rt_log = <<>>
    /\ rt_sleeps = <<>>
    /\ rt_last = None
    /\ rt_out = None

\* return await func(*args, **kwargs), func returning normally.
RetryInvokeOk ==
    /\ rt_pc = "call"
    /\ rt_log' = Append(rt_log, "ok")
    /\ rt_pc' = "returned"
    /\ rt_out' = "ok"
    /\ UNCHANGED <<rt_max, rt_delay, rt_attempt, rt_sleeps, rt_last>>
    /\ UNCHANGED notRetry

\* await func(*args, **kwargs) raising e: the except branch up to the sleep.
RetryInvokeFail ==
    /\ rt_pc = "call"
    /\ \E e \in Exceptions :
          /\ rt_log' = Append(rt_log, e)
          /\ rt_last' = e
    /\ rt_pc' = IF rt_attempt < rt_max THEN "sleep" ELSE "next"
    /\ UNCHANGED <<rt_max, rt_delay, rt_attempt, rt_sleeps, rt_out>>
    /\ UNCHANGED notRetry

\* await asyncio.sleep(delay * (2 ** attempt))
RetrySleep ==
    /\ rt_pc = "sleep"
    /\ rt_sleeps' = Append(rt_sleeps, BackoffDelay(rt_delay, rt_attempt))
    /\ rt_pc' = "next"
    /\ UNCHANGED <<rt_max, rt_delay, rt_attempt, rt_log, rt_last, rt_out>>
    /\ UNCHANGED notRetry

\* The for statement takes its next value, or the loop ends and
\* `raise last_exception` runs.
RetryLoop ==
    /\ rt_pc = "next"
    /\ rt_attempt' = rt_attempt + 1
    /\ IF rt_attempt + 1 < RetryRange(rt_max)
          THEN /\ rt_pc' = "call"
               /\ rt_out' = rt_out
          ELSE /\ rt_pc' = "raised"
               /\ rt_out' = rt_last
    /\ UNCHANGED <<rt_max, rt_delay, rt_log, rt_sleeps, rt_last>>
    /\ UNCHANGED notRetry

RetryNext == RetryInvokeOk \/ RetryInvokeFail \/ RetrySleep \/ RetryLoop

(***************************************************************************)
(* RateLimiter                                                             *)
(***************************************************************************)

\* The clock's resolution.
TicksPerSecond == 10

\* calls_per_second of the price oracle's limiter, RateLimiter(calls_per_second=5).
calls_per_second == 5

\* self.min_interval = 1.0 / calls_per_second, in ticks.
min_interval == TicksPerSecond \div calls_per_second

\* The coroutines that call wait() on the one limiter instance.
NumCoroutines == 2

Coroutines == 1..NumCoroutines

\* time.time() when the first wait() is called: far from last_call = 0.
StartTime == 10

\* How far the clock runs.
TimeSpan == 5

\* How many returns of wait() a run records.
MaxReturns == 4

LimiterInit ==
    /\ rl_now = StartTime
    /\ rl_last = 0
    /\ rl_pc = [c \in Coroutines |-> "idle"]
    /\ rl_wake = [c \in Coroutines |-> 0]
    /\ rl_returns = <<>>

LimiterIdle ==
    /\ rl_now = 0
    /\ rl_last = 0
    /\ rl_pc = <<>>
    /\ rl_wake = <<>>
    /\ rl_returns = <<>>

\* time_since_last = current_time - self.last_call
TimeSinceLast == rl_now - rl_last

\* Time passes.
LimiterTick ==
    /\ rl_now < StartTime + TimeSpan
    /\ rl_now' = rl_now + 1
    /\ UNCHANGED <<rl_last, rl_pc, rl_wake, rl_returns>>
    /\ UNCHANGED notLimiter

\* wait() when time_since_last >= min_interval: no await, so the coroutine
\* runs to the end of wait() without yielding.
LimiterWaitThrough(c) ==
    /\ rl_pc[c] = "idle"
    /\ Len(rl_returns) < MaxReturns
    /\ ~(TimeSinceLast < min_interval)
    /\ rl_last' = rl_now
    /\ rl_returns' = Append(rl_returns, rl_now)
    /\ UNCHANGED <<rl_now, rl_pc, rl_wake>>
    /\ UNCHANGED notLimiter

\* wait() when time_since_last < min_interval: sleep_time is computed from
\* the last_call read now, and the coroutine yields in asyncio.sleep.
LimiterWaitSleep(c) ==
    /\ rl_pc[c] = "idle"
    /\ Len(rl_returns) < MaxReturns
    /\ TimeSinceLast < min_interval
    /\ rl_pc' = [rl_pc EXCEPT ![c] = "sleeping"]
    /\ rl_wake' = [rl_wake EXCEPT ![c] = rl_now + (min_interval - TimeSinceLast)]
    /\ UNCHANGED <<rl_now, rl_last, rl_returns>>
    /\ UNCHANGED notLimiter

\* asyncio.sleep(sleep_time) ends (not before its time), then
\* self.last_call = time.time() and wait() returns.
LimiterWake(c) ==
    /\ rl_pc[c] = "sleeping"
    /\ rl_now >= rl_wake[c]
    /\ rl_last' = rl_now
    /\ rl_returns' = Append(rl_returns, rl_now)
    /\ rl_pc' = [rl_pc EXCEPT ![c] = "idle"]
    /\ UNCHANGED <<rl_now, rl_wake>>
    /\ UNCHANGED notLimiter

LimiterNext ==
    \/ LimiterTick
    \/ \E c \in Coroutines : LimiterWaitThrough(c)
    \/ \E c \in Coroutines : LimiterWaitSleep(c)
    \/ \E c \in Coroutines : LimiterWake(c)

(***************************************************************************)
(* RedStoneService: get_price, get_prices and the price cache              *)
(***************************************************************************)

\* Token symbols are sequences of letters, so that upper() and lower() are
\* conversions and not the identity.
UpperChar(ch) ==
    CASE ch = "e" -> "E"
      [] ch = "t" -> "T"
      [] ch = "d" -> "D"
      [] ch = "a" -> "A"
      [] OTHER -> ch

LowerChar(ch) ==
    CASE ch = "E" -> "e"
      [] ch = "T" -> "t"
      [] ch = "D" -> "d"
      [] ch = "A" -> "a"
      [] OTHER -> ch

\* str.upper()
Upper(sym) == [i \in DOMAIN sym |-> UpperChar(sym[i])]

\* str.lower()
Lower(sym) == [i \in DOMAIN sym |-> LowerChar(sym[i])]

\* The symbols callers ask for: one token in two letter cases, and another.
Symbols == {<<"e", "t">>, <<"E", "T">>, <<"D", "A">>}

\* The keys of price_cache and of the remote response: upper-cased symbols.
CacheKeys == {Upper(sym) : sym \in Symbols}

\* The prices the remote service quotes.
Prices == {1, 2}

\* What the response holds for a symbol: a dict with a numeric 'value', a
\* dict without 'value', or something float() or .get() raises on.
PriceData ==
    {[kind |-> "value", value |-> p] : p \in Prices}
        \cup {[kind |-> "novalue", value |-> 0], [kind |-> "bad", value |-> 0]}

\* The Python value None where a price is expected.
NoPrice == 0 - 1

\* A cache key that is not in price_cache.
NoEntry == [price |-> NoPrice, ts |-> 0 - 1]

\* What fetch_with_session returns: a dict from some upper-cased symbols to
\* price data; the empty dict also stands for a non-200 status, a timeout
\* and any transport error.
Responses == UNION {[ks -> PriceData] : ks \in SUBSET CacheKeys}

\* self.cache_ttl = timedelta(minutes=5)
cache_ttl == 5

\* How far the clock runs, in minutes.
OracleTimeSpan == 5

\* The coroutines that call the oracle.
NumCallers == 2

Callers == 1..NumCallers

\* How many calls a run makes in all.
MaxOracleCalls == 2

\* The symbol lists get_prices is called with: _get_token_prices passes
\* [token0_symbol, token1_symbol], the symbols of a pool's two tokens.
SymbolLists == {s \in {<<a, b>> : a \in Symbols, b \in Symbols} : Upper(s[1]) # Upper(s[2])}

\* @retry_on_failure(max_retries=3) on get_price and on get_prices
OracleMaxRetries == 3

\* A call in progress: the wrapper's attempt, the symbols asked for, the
\* time it began at (start), how many calls had returned when it began
\* (after), the cache entries its cache check read, one per symbol (seen),
\* the hits (results) and the symbols to look up remotely (tofetch).
IdleCall == [op |-> "idle", syms |-> <<>>, start |-> 0, after |-> 0,
             attempt |-> 0, seen |-> <<>>, results |-> <<>>, tofetch |-> <<>>]

OracleInit ==
    /\ po_now = 0
    /\ po_cache = [k \in CacheKeys |-> NoEntry]
    /\ po_call = [c \in Callers |-> IdleCall]
    /\ po_hist = <<>>

OracleIdle ==
    /\ po_now = 0
    /\ po_cache = <<>>
    /\ po_call = <<>>
    /\ po_hist = <<>>

\* Every symbol filed in the one slot.
CacheSlotShared(key) == <<"E", "T">>

\* The slot of price_cache a price is written to: the upper-cased symbol.
CacheSlot(key) == key

\* The comparison the wrong way round: now - timestamp > cache_ttl.
CacheFreshReversed(cache, key, now) ==
    /\ cache[key] # NoEntry
    /\ now - cache[key].ts > cache_ttl

\* No entry counting as fresh.
CacheFreshNever(cache, key, now) == FALSE

\* cache_key in self.price_cache and datetime.now() - timestamp < self.cache_ttl
CacheFresh(cache, key, now) ==
    /\ cache[key] # NoEntry
    /\ now - cache[key].ts < cache_ttl

\* A cache entry written with the time of the epoch.
CacheEntryStale(price, now) == [price |-> price, ts |-> 0]

\* (price, datetime.now()): the entry a fetched price is cached as.
CacheEntry(price, now) == [price |-> price, ts |-> now]

\* float(price_data.get('value', 0)), for price data it does not raise on.
ParsePrice(pd) == IF pd.kind = "novalue" THEN 0 ELSE pd.value

\* The calls begun so far.
CallsBegun ==
    Len(po_hist) + Cardinality({c \in Callers : po_call[c].op # "idle"})

\* The coroutines are alike: a new call is taken by the first idle one.
FirstIdle(c) ==
    /\ po_call[c].op = "idle"
    /\ \A d \in Callers : d < c => po_call[d].op # "idle"

\* The cache entries a cache check reads, one per symbol.
Seen(symbols, cache) == [k \in DOMAIN symbols |-> cache[Upper(symbols[k])]]

\* What a response holds for the symbols looked up: the price data of each
\* symbol it has.
Answered(resp, tofetch) ==
    [key \in DOMAIN resp \cap {tofetch[i] : i \in DOMAIN tofetch} |-> resp[key]]

\* A call ends: po_hist records the call with the symbols it sent to the
\* remote service (fetched), how many remote lookups it issued (lookups),
\* what the last response held for them (quoted) and of which kind that
\* was (answered), what the call returned (result) and whether it raised
\* instead (raised).
Finish(c, call, lookups, answered, result, raised) ==
    /\ po_hist' = Append(po_hist,
                         [op |-> call.op, syms |-> call.syms, start |-> call.start,
                          after |-> call.after, seen |-> call.seen,
                          fetched |-> IF lookups = 0 THEN <<>> ELSE call.tofetch,
                          lookups |-> lookups,
                          answered |-> [key \in DOMAIN answered |-> answered[key].kind],
                          quoted |-> answered,
                          result |-> result, raised |-> raised])
    /\ po_call' = [po_call EXCEPT ![c] = IdleCall]

\* Time passes, a minute at a time; a remote fetch in flight ends within
\* REQUEST_TIMEOUT (seconds), so within the minute after the one it began in.
OracleTick ==
    /\ po_now < OracleTimeSpan
    /\ Len(po_hist) < MaxOracleCalls
    /\ \A c \in Callers : po_call[c].op # "idle" => po_call[c].start = po_now
    /\ po_now' = po_now + 1
    /\ UNCHANGED <<po_cache, po_call, po_hist>>
    /\ UNCHANGED notOracle

\* The except clause handing the exception on to the caller.
ExceptReraise(e) == [kind |-> "raise", value |-> NoPrice]

\* except Exception as e: log the error, return None (get_price).
GetPriceExcept(e) == [kind |-> "return", value |-> NoPrice]

\* The try block of get_price on a response: the price of the symbol, None
\* for a response without the symbol (an empty one included), the except
\* clause for price data that float() or .get() raises on.
GetPriceTry(resp, key) ==
    IF key \in DOMAIN resp
       THEN IF resp[key].kind = "bad"
               THEN GetPriceExcept("bad")
               ELSE [kind |-> "return", value |-> ParsePrice(resp[key])]
       ELSE [kind |-> "return", value |-> NoPrice]

\* Every outcome of the try block written to the cache.
CacheableAlways(outcome) == TRUE

\* self.price_cache[cache_key] = (price, datetime.now()) sits on the path
\* that returns a price.
Cacheable(outcome) == outcome.kind = "return" /\ outcome.value # NoPrice

\* The wrapper of retry_on_failure: an invocation that raised is repeated
\* while attempt < max_retries.
WrapperRepeats(outcome, attempt) ==
    outcome.kind = "raise" /\ attempt < OracleMaxRetries

\* get_price(symbol) up to its first await that reads the oracle's state:
\* the limiter's wait (which reads none of it), then the cache check; a
\* fresh entry is returned, anything else goes on to the remote fetch.
GetPriceCall(c) ==
    /\ FirstIdle(c)
    /\ CallsBegun < MaxOracleCalls
    /\ \E symbol \in Symbols :
          LET cache_key == Upper(symbol)
              call == [IdleCall EXCEPT !.op = "get_price",
                                       !.syms = <<symbol>>,
                                       !.start = po_now,
                                       !.after = Len(po_hist),
                                       !.seen = Seen(<<symbol>>, po_cache),
                                       !.tofetch = <<cache_key>>]
          IN  IF CacheFresh(po_cache, cache_key, po_now)
                 THEN Finish(c, call, 0, <<>>, po_cache[cache_key].price, FALSE)
                 ELSE /\ po_call' = [po_call EXCEPT ![c] = call]
                      /\ po_hist' = po_hist
    /\ UNCHANGED <<po_now, po_cache>>
    /\ UNCHANGED notOracle

\* get_price: the remote response arrives.  A price for the symbol is
\* cached with the time of now and returned; a response without the symbol
\* returns None; an exception while reading it is caught and returns None.
\* Had the invocation raised, the wrapper would invoke get_price again
\* (cache check, then another lookup) until its attempts are used up.
GetPriceFetched(c) ==
    /\ po_call[c].op = "get_price"
    /\ \E resp \in Responses :
          LET call == po_call[c]
              key == Upper(call.syms[1])
              outcome == GetPriceTry(resp, key)
              cache == IF Cacheable(outcome)
                          THEN [po_cache EXCEPT ![CacheSlot(key)] =
                                                   CacheEntry(outcome.value, po_now)]
                          ELSE po_cache
          IN  /\ po_cache' = cache
              /\ IF WrapperRepeats(outcome, call.attempt)
                    THEN IF CacheFresh(cache, key, po_now)
                            THEN Finish(c, call, call.attempt + 1,
                                        Answered(resp, call.tofetch), cache[key].price, FALSE)
                            ELSE /\ po_call' = [po_call EXCEPT ![c].attempt = @ + 1]
                                 /\ po_hist' = po_hist
                    ELSE Finish(c, call, call.attempt + 1, Answered(resp, call.tofetch),
                                outcome.value, outcome.kind = "raise")
    /\ UNCHANGED po_now
    /\ UNCHANGED notOracle

\* results[key] = value on a dict.
DictSet(d, key, value) ==
    [x \in (DOMAIN d) \cup {key} |-> IF x = key THEN value ELSE d[x]]

\* token_prices.get(symbol.lower(), 0.0): the price calculate_pool_metrics
\* and _calculate_tvl read for a token out of the map get_prices returned.
TokenPriceRead(token_prices, symbol) ==
    IF Lower(symbol) \in DOMAIN token_prices THEN token_prices[Lower(symbol)] ELSE 0

\* The first loop of get_prices: the symbols with a fresh cache entry go to
\* results under the symbol as given; the others go to symbols_to_fetch in
\* upper case.
RECURSIVE CheckLoop(_, _, _, _, _, _)
CheckLoop(symbols, i, cache, now, results, tofetch) ==
    IF i > Len(symbols)
       THEN [results |-> results, tofetch |-> tofetch]
       ELSE LET symbol == symbols[i]
                cache_key == Upper(symbol)
            IN  IF CacheFresh(cache, cache_key, now)
                   THEN CheckLoop(symbols, i + 1, cache, now,
                                  DictSet(results, symbol, cache[cache_key].price),
                                  tofetch)
                   ELSE CheckLoop(symbols, i + 1, cache, now, results,
                                  Append(tofetch, Upper(symbol)))

\* The second loop of get_prices, over symbols_to_fetch with a non-empty
\* response: a symbol of the response is cached and goes to results under
\* its lower case, a symbol the response lacks goes to results as None; an
\* exception while reading a price ends the loop (raised), the cache keeping
\* what was written before it.
RECURSIVE FetchLoop(_, _, _, _, _, _)
FetchLoop(tofetch, i, resp, cache, now, results) ==
    IF i > Len(tofetch)
       THEN [cache |-> cache, results |-> results, raised |-> FALSE]
       ELSE LET symbol == tofetch[i]
            IN  IF symbol \in DOMAIN resp
                   THEN IF resp[symbol].kind = "bad"
                           THEN [cache |-> cache, results |-> results, raised |-> TRUE]
                           ELSE FetchLoop(tofetch, i + 1, resp,
                                          [cache EXCEPT ![CacheSlot(symbol)] =
                                              CacheEntry(ParsePrice(resp[symbol]), now)],
                                          now,
                                          DictSet(results, Lower(symbol),
                                                  ParsePrice(resp[symbol])))
                   ELSE FetchLoop(tofetch, i + 1, resp, cache, now,
                                  DictSet(results, Lower(symbol), NoPrice))

\* {symbol.lower(): None for symbol in symbols}
AllNone(symbols) ==
    [x \in {Lower(symbols[i]) : i \in DOMAIN symbols} |-> NoPrice]

\* except Exception as e: log the error, return None for every symbol
\* (get_prices).
GetPricesExcept(symbols) == [kind |-> "return", value |-> AllNone(symbols)]

\* get_prices(symbols) up to its first await that reads the oracle's state:
\* the limiter's wait, then the cache check of every symbol; with nothing to
\* fetch the hits are returned, else the remote fetch is issued.
GetPricesCall(c) ==
    /\ FirstIdle(c)
    /\ CallsBegun < MaxOracleCalls
    /\ \E symbols \in SymbolLists :
          LET r == CheckLoop(symbols, 1, po_cache, po_now, <<>>, <<>>)
              call == [IdleCall EXCEPT !.op = "get_prices",
                                       !.syms = symbols,
                                       !.start = po_now,
                                       !.after = Len(po_hist),
                                       !.seen = Seen(symbols, po_cache),
                                       !.results = r.results,
                                       !.tofetch = r.tofetch]
          IN  IF r.tofetch = <<>>
                 THEN Finish(c, call, 0, <<>>, r.results, FALSE)
                 ELSE /\ po_call' = [po_call EXCEPT ![c] = call]
                      /\ po_hist' = po_hist
    /\ UNCHANGED <<po_now, po_cache>>
    /\ UNCHANGED notOracle

\* get_prices: the remote response arrives.  An empty response returns the
\* hits alone; otherwise the second loop runs, and an exception in it
\* returns None for every symbol asked.  Had the invocation raised, the
\* wrapper would invoke get_prices again (cache check, then another lookup
\* of what is still missing) until its attempts are used up.
GetPricesFetched(c) ==
    /\ po_call[c].op = "get_prices"
    /\ \E resp \in Responses :
          LET call == po_call[c]
              r == IF DOMAIN resp = {}
                      THEN [cache |-> po_cache, results |-> call.results, raised |-> FALSE]
                      ELSE FetchLoop(call.tofetch, 1, resp, po_cache, po_now,
                                     call.results)
              outcome == IF r.raised THEN GetPricesExcept(call.syms)
                                     ELSE [kind |-> "return", value |-> r.results]
              again == CheckLoop(call.syms, 1, r.cache, po_now, <<>>, <<>>)
          IN  /\ po_cache' = r.cache
              /\ IF WrapperRepeats(outcome, call.attempt)
                    THEN IF again.tofetch = <<>>
                            THEN Finish(c, call, call.attempt + 1,
                                        Answered(resp, call.tofetch), again.results, FALSE)
                            ELSE /\ po_call' = [po_call EXCEPT ![c].attempt = @ + 1,
                                                              ![c].results = again.results,
                                                              ![c].tofetch = again.tofetch]
                                 /\ po_hist' = po_hist
                    ELSE Finish(c, call, call.attempt + 1, Answered(resp, call.tofetch),
                                outcome.value, outcome.kind = "raise")
    /\ UNCHANGED po_now
    /\ UNCHANGED notOracle

OracleNext ==
    \/ OracleTick
    \/ \E c \in Callers : GetPriceCall(c)
    \/ \E c \in Callers : GetPriceFetched(c)
    \/ \E c \in Callers : GetPricesCall(c)
    \/ \E c \in Callers : GetPricesFetched(c)

(***************************************************************************)
(* Protocol fetchers: get_top_pools / get_all_pools and their fallbacks    *)
(***************************************************************************)

\* config.MIN_TVL_THRESHOLD (its default).
MIN_TVL_THRESHOLD == 100000

\* config.MAX_POOLS_PER_DEX.  The environment sets it (default 50); it is
\* small here so that a response can hold more entries than the cap.
MAX_POOLS_PER_DEX == 2

\* The most entries in one response of a source.
MaxEntries == 3

\* The values of `limit`: the orchestrator passes config.MAX_POOLS_PER_DEX,
\* another caller may pass less.
Limits == 1..MAX_POOLS_PER_DEX

\* @retry_on_failure(max_retries=3) on get_top_pools / get_all_pools.
FetchMaxRetries == 3

\* The decorator's default delay (seconds).
FetchDelay == 1

\* The keys of LiquidityPoolScraper.services.
Protocols == {"uniswap", "sushiswap", "curve", "pancakeswap"}

\* The sources, as the position of the call that queries them.
Tiers ==
    {"uniswap_subgraph", "sushi_subgraph", "sushi_api", "curve_api",
     "curve_defillama", "pancake_api", "pancake_subgraph", "pancake_defillama"}

\* The sources that are the cross-protocol aggregator (DeFiLlama).
AggregatorTiers == {"curve_defillama", "pancake_defillama"}

\* A TVL field that is not in the entry (d.get(key, 0) gives 0).
Absent == 0 - 1

\* A TVL field that float() rejects (a non-numeric string, null).
Malformed == 0 - 2

\* The TVL values a source reports.
TvlReported == {0, MIN_TVL_THRESHOLD, 250000}

TvlFields == {Absent, Malformed} \cup TvlReported

\* The project/chain tags of an aggregator entry: those of the fetcher's
\* protocol and chain, those of another one, a project that is no string.
Tags == {"match", "other", "malformed"}

\* One entry of a response.  rest: the fields other than the TVL are there
\* and parse.  The entry's address is its position in the response.
NativeEntries == [tvl : TvlFields, rest : BOOLEAN, tag : {"match"}]

AggregatorEntries == [tvl : TvlFields, rest : {TRUE}, tag : Tags]

SeqsUpTo(S, n) == UNION {[1..k -> S] : k \in 0..n}

\* What a request to a source comes back with: an exception (timeout,
\* connection error), a status other than 200, or a 200 with entries.
FailedResponses ==
    {[status |-> "exception", entries |-> <<>>],
     [status |-> "http_error", entries |-> <<>>]}

NativeResponses ==
    FailedResponses \cup
    {[status |-> "ok", entries |-> es] : es \in SeqsUpTo(NativeEntries, MaxEntries)}

AggregatorResponses ==
    FailedResponses \cup
    {[status |-> "ok", entries |-> es] : es \in SeqsUpTo(AggregatorEntries, MaxEntries)}

NoResponse == [status |-> "none", entries |-> <<>>]

\* What a tier function returns: a list of pools, or None.
PoolList(pools) == [ret |-> "list", pools |-> pools]

NoneReturned == [ret |-> "none", pools |-> <<>>]

Min(a, b) == IF a < b THEN a ELSE b

\* `first: %d` of a subgraph query: min(limit, config.MAX_POOLS_PER_DEX).
\* The subgraph answers with at most that many entries.
First(limit) == Min(limit, MAX_POOLS_PER_DEX)

\* The responses a subgraph gives to a query for the first n entries.
SubgraphResponses(n) == {resp \in NativeResponses : Len(resp.entries) <= n}

\* s[:n]
Take(s, n) == SubSeq(s, 1, Min(n, Len(s)))

\* The positions of a list, in order.
Indices(entries) == [i \in 1..Len(entries) |-> i]

\* float(d.get(key, 0)) on a field float() accepts.
TvlOf(e) == IF e.tvl = Absent THEN 0 ELSE e.tvl

\* The parser's try block raises KeyError / ValueError / TypeError.
ParseRaises(e) == e.tvl = Malformed \/ ~e.rest

\* A parser: the pool built from the entry, or None (the empty sequence)
\* when building it raises.
ParseEntry(e, addr) ==
    IF ParseRaises(e) THEN <<>> ELSE <<[addr |-> addr, tvl |-> TvlOf(e)]>>

UniswapParsePoolData(e, addr) == ParseEntry(e, addr)

SushiParsePoolData(e, addr) == ParseEntry(e, addr)

SushiParseApiPoolData(e, addr) == ParseEntry(e, addr)

CurveParsePoolData(e, addr) == ParseEntry(e, addr)

CurveParseDefillamaPoolData(e, addr) == ParseEntry(e, addr)

PancakeParseApiPoolData(e, addr) == ParseEntry(e, addr)

PancakeParseSubgraphPoolData(e, addr) == ParseEntry(e, addr)

PancakeParseDefillamaPoolData(e, addr) == ParseEntry(e, addr)

\* The parser a tier applies to its entries.
ParserOf(tier, e, addr) ==
    CASE tier = "uniswap_subgraph" -> UniswapParsePoolData(e, addr)
      [] tier = "sushi_subgraph" -> SushiParsePoolData(e, addr)
      [] tier = "sushi_api" -> SushiParseApiPoolData(e, addr)
      [] tier = "curve_api" -> CurveParsePoolData(e, addr)
      [] tier = "curve_defillama" -> CurveParseDefillamaPoolData(e, addr)
      [] tier = "pancake_api" -> PancakeParseApiPoolData(e, addr)
      [] tier = "pancake_subgraph" -> PancakeParseSubgraphPoolData(e, addr)
      [] tier = "pancake_defillama" -> PancakeParseDefillamaPoolData(e, addr)

\* A test every pool passes.
MeetsThresholdAlways(pool) == TRUE

\* pool.tvl_usd >= config.MIN_TVL_THRESHOLD
MeetsThreshold(pool) == pool.tvl >= MIN_TVL_THRESHOLD

\* The parse loop of a tier over the entries at positions idxs:
\*   pool = parse(entry)
\*   if pool [and pool.tvl_usd >= config.MIN_TVL_THRESHOLD]: pools.append(pool)
\* The PancakeSwap tiers append without the threshold test.
RECURSIVE ParseLoop(_, _, _, _)
ParseLoop(tier, entries, idxs, threshold) ==
    IF idxs = <<>> THEN <<>>
    ELSE LET parsed == ParserOf(tier, entries[Head(idxs)], Head(idxs))
             kept == IF threshold THEN SelectSeq(parsed, MeetsThreshold) ELSE parsed
         IN kept \o ParseLoop(tier, entries, Tail(idxs), threshold)

\* sorted(..., key=lambda x: float(x[1].get('reserve_USD', 0)), reverse=True)
\* raises when float() rejects the reserve_USD of any pair.
SortRaises(entries) == \E i \in 1..Len(entries) : entries[i].tvl = Malformed

\* Position i put into a list of positions sorted by TVL, descending,
\* behind every position of at least its TVL (the sort is stable).
RECURSIVE InsertDesc(_, _, _)
InsertDesc(sorted, i, entries) ==
    IF sorted = <<>> THEN <<i>>
    ELSE IF TvlOf(entries[Head(sorted)]) >= TvlOf(entries[i])
         THEN <<Head(sorted)>> \o InsertDesc(Tail(sorted), i, entries)
         ELSE <<i>> \o sorted

\* sorted_pairs: the first n positions in descending order of reserve_USD.
RECURSIVE SortedPairs(_, _)
SortedPairs(entries, n) ==
    IF n = 0 THEN <<>> ELSE InsertDesc(SortedPairs(entries, n - 1), n, entries)

\* pool.get('project', '').lower() raises on a project that is no string.
TagFilterRaises(entries) == \E i \in 1..Len(entries) : entries[i].tag = "malformed"

\* [pool for pool in data.get('data', []) if <project and chain match>]
TagFiltered(entries) ==
    SelectSeq(Indices(entries), LAMBDA i : entries[i].tag = "match")

\* UniswapV3Service.get_top_pools, from the response of the subgraph on:
\* no fallback, an empty list on any failure.
UniswapGetTopPools(resp) ==
    IF resp.status = "ok"
    THEN PoolList(ParseLoop("uniswap_subgraph", resp.entries,
                            Indices(resp.entries), TRUE))
    ELSE PoolList(<<>>)

\* SushiSwapService.get_top_pools, the branch of a 200 from the subgraph.
SushiSubgraphPools(resp) ==
    ParseLoop("sushi_subgraph", resp.entries, Indices(resp.entries), TRUE)

\* SushiSwapService.get_top_pools on a failure of the subgraph returns
\* nothing itself.
SushiOnFailureGiveUp == "returned"

\* SushiSwapService.get_top_pools on a failure of the subgraph:
\*   return await self._get_pools_fallback()
SushiOnFailure == "sushi_api"

\* SushiSwapService._get_pools_fallback (the SushiSwap API).
SushiGetPoolsFallback(resp) ==
    IF resp.status = "ok"
    THEN PoolList(ParseLoop("sushi_api", resp.entries,
                            Take(Indices(resp.entries), MAX_POOLS_PER_DEX), TRUE))
    ELSE PoolList(<<>>)

\* CurveService.get_all_pools, the branch of a 200 from the Curve API.
CurveApiPools(resp) ==
    ParseLoop("curve_api", resp.entries,
              Take(Indices(resp.entries), MAX_POOLS_PER_DEX), TRUE)

\* CurveService.get_all_pools on a failure of the Curve API:
\*   return await self._get_pools_fallback()
CurveOnFailure == "curve_defillama"

\* CurveService._get_pools_fallback (DeFiLlama).
CurveGetPoolsFallback(resp) ==
    IF resp.status = "ok" /\ ~TagFilterRaises(resp.entries)
    THEN PoolList(ParseLoop("curve_defillama", resp.entries,
                            Take(TagFiltered(resp.entries), MAX_POOLS_PER_DEX), TRUE))
    ELSE PoolList(<<>>)

\* PancakeSwapService._get_pools_from_api: a status other than 200 falls
\* off the end of the function (None).
PancakeGetPoolsFromApi(resp) ==
    CASE resp.status = "exception" -> PoolList(<<>>)
      [] resp.status = "http_error" -> NoneReturned
      [] resp.status = "ok" ->
            IF SortRaises(resp.entries) THEN PoolList(<<>>)
            ELSE PoolList(ParseLoop("pancake_api", resp.entries,
                     Take(SortedPairs(resp.entries, Len(resp.entries)),
                          MAX_POOLS_PER_DEX), FALSE))

\* PancakeSwapService._get_pools_from_subgraph.
PancakeGetPoolsFromSubgraph(resp) ==
    IF resp.status = "ok"
    THEN PoolList(ParseLoop("pancake_subgraph", resp.entries,
                            Indices(resp.entries), FALSE))
    ELSE PoolList(<<>>)

\* PancakeSwapService._get_pools_from_defillama: a status other than 200
\* falls off the end of the function (None).
PancakeGetPoolsFromDefillama(resp) ==
    CASE resp.status = "exception" -> PoolList(<<>>)
      [] resp.status = "http_error" -> NoneReturned
      [] resp.status = "ok" ->
            IF TagFilterRaises(resp.entries) THEN PoolList(<<>>)
            ELSE PoolList(ParseLoop("pancake_defillama", resp.entries,
                     Take(TagFiltered(resp.entries), MAX_POOLS_PER_DEX), FALSE))

\* Every tier is queried, whatever the earlier ones returned.
NotPoolsAlways(returned) == TRUE

\* `not pools` on what a tier function returned: None or an empty list.
NotPools(returned) == returned.ret = "none" \/ returned.pools = <<>>

\* [pool for pool in pools if pool.tvl_usd >= config.MIN_TVL_THRESHOLD]
\*     [:config.MAX_POOLS_PER_DEX]
FilteredPools(pools) == Take(SelectSeq(pools, MeetsThreshold), MAX_POOLS_PER_DEX)

\* The source a fetcher queries first.
FirstTier(protocol) ==
    CASE protocol = "uniswap" -> "uniswap_subgraph"
      [] protocol = "sushiswap" -> "sushi_subgraph"
      [] protocol = "curve" -> "curve_api"
      [] protocol = "pancakeswap" -> "pancake_api"

\* The orchestrator calls the fetcher of one protocol (collect_all_pool_data).
FetchInit ==
    /\ ft_proto \in Protocols
    /\ ft_limit \in (IF ft_proto = "curve" THEN {MAX_POOLS_PER_DEX} ELSE Limits)
    /\ ft_pc = FirstTier(ft_proto)
    /\ ft_attempt = 0
    /\ ft_sleeps = <<>>
    /\ ft_resp = NoResponse
    /\ ft_log = <<>>
    /\ ft_tried = [t \in Tiers |-> 0]
    /\ ft_out = <<>>

FetchIdle ==
    /\ ft_proto = "uniswap"
    /\ ft_limit = MAX_POOLS_PER_DEX
    /\ ft_pc = "idle"
    /\ ft_attempt = 0
    /\ ft_sleeps = <<>>
    /\ ft_resp = NoResponse
    /\ ft_log = <<>>
    /\ ft_tried = [t \in Tiers |-> 0]
    /\ ft_out = <<>>

\* The request to a source got resp, from which the tier made `returned`.
Queried(tier, resp, returned) ==
    /\ ft_resp' = resp
    /\ ft_tried' = [ft_tried EXCEPT ![tier] = @ + 1]
    /\ ft_log' = Append(ft_log, [tier |-> tier, status |-> resp.status,
                                 ret |-> returned.ret, pools |-> returned.pools])

\* The decorated function returns pools; the wrapper hands them on.
Returns(pools) ==
    /\ ft_pc' = "returned"
    /\ ft_out' = pools
    /\ UNCHANGED <<ft_proto, ft_limit, ft_attempt, ft_sleeps>>

\* The call goes on at position pc.
Continues(pc) ==
    /\ ft_pc' = pc
    /\ UNCHANGED <<ft_proto, ft_limit, ft_attempt, ft_sleeps, ft_out>>

\* UniswapV3Service.get_top_pools: the one request.
UniswapSubgraph ==
    /\ ft_pc = "uniswap_subgraph"
    /\ \E resp \in SubgraphResponses(First(ft_limit)) :
          LET returned == UniswapGetTopPools(resp)
          IN /\ Queried("uniswap_subgraph", resp, returned)
             /\ Returns(returned.pools)
    /\ UNCHANGED notFetch

\* SushiSwapService.get_top_pools: the request to the subgraph.
SushiSubgraph ==
    /\ ft_pc = "sushi_subgraph"
    /\ \E resp \in SubgraphResponses(First(ft_limit)) :
          IF resp.status = "ok"
          THEN LET pools == SushiSubgraphPools(resp)
               IN /\ Queried("sushi_subgraph", resp, PoolList(pools))
                  /\ Returns(pools)
          ELSE /\ Queried("sushi_subgraph", resp, PoolList(<<>>))
               /\ Continues(SushiOnFailure)
    /\ UNCHANGED notFetch

\* SushiSwapService._get_pools_fallback, whose result get_top_pools returns.
SushiFallback ==
    /\ ft_pc = "sushi_api"
    /\ \E resp \in NativeResponses :
          LET returned == SushiGetPoolsFallback(resp)
          IN /\ Queried("sushi_api", resp, returned)
             /\ Returns(returned.pools)
    /\ UNCHANGED notFetch

\* CurveService.get_all_pools: the request to the Curve API.
CurveApi ==
    /\ ft_pc = "curve_api"
    /\ \E resp \in NativeResponses :
          IF resp.status = "ok"
          THEN LET pools == CurveApiPools(resp)
               IN /\ Queried("curve_api", resp, PoolList(pools))
                  /\ Returns(pools)
          ELSE /\ Queried("curve_api", resp, PoolList(<<>>))
               /\ Continues(CurveOnFailure)
    /\ UNCHANGED notFetch

\* CurveService._get_pools_fallback, whose result get_all_pools returns.
CurveFallback ==
    /\ ft_pc = "curve_defillama"
    /\ \E resp \in AggregatorResponses :
          LET returned == CurveGetPoolsFallback(resp)
          IN /\ Queried("curve_defillama", resp, returned)
             /\ Returns(returned.pools)
    /\ UNCHANGED notFetch

\* What the tier function called last returned to get_top_pools.
LastReturned ==
    [ret |-> ft_log[Len(ft_log)].ret, pools |-> ft_log[Len(ft_log)].pools]

\* The tier function called last has returned: its response is gone.
TierReturned ==
    /\ ft_resp' = NoResponse
    /\ UNCHANGED <<ft_log, ft_tried>>

\* PancakeSwapService.get_top_pools from the filter on: iterating None
\* raises TypeError, which reaches the retry wrapper.
PancakeFinish(returned) ==
    IF returned.ret = "none"
    THEN Continues("failed")
    ELSE Returns(FilteredPools(returned.pools))

\* PancakeSwapService._get_pools_from_api, called by get_top_pools.
PancakeApi ==
    /\ ft_pc = "pancake_api"
    /\ \E resp \in NativeResponses :
          Queried("pancake_api", resp, PancakeGetPoolsFromApi(resp))
    /\ Continues("pancake_api_returned")
    /\ UNCHANGED notFetch

\* get_top_pools after the API tier: `if not pools`, the subgraph is next.
PancakeAfterApi ==
    /\ ft_pc = "pancake_api_returned"
    /\ TierReturned
    /\ IF NotPools(LastReturned)
       THEN Continues("pancake_subgraph")
       ELSE PancakeFinish(LastReturned)
    /\ UNCHANGED notFetch

\* PancakeSwapService._get_pools_from_subgraph, called by get_top_pools.
PancakeSubgraph ==
    /\ ft_pc = "pancake_subgraph"
    /\ \E resp \in SubgraphResponses(First(ft_limit)) :
          Queried("pancake_subgraph", resp, PancakeGetPoolsFromSubgraph(resp))
    /\ Continues("pancake_subgraph_returned")
    /\ UNCHANGED notFetch

\* get_top_pools after the subgraph tier: `if not pools`, DeFiLlama is next.
PancakeAfterSubgraph ==
    /\ ft_pc = "pancake_subgraph_returned"
    /\ TierReturned
    /\ IF NotPools(LastReturned)
       THEN Continues("pancake_defillama")
       ELSE PancakeFinish(LastReturned)
    /\ UNCHANGED notFetch

\* PancakeSwapService._get_pools_from_defillama, called by get_top_pools.
PancakeDefillama ==
    /\ ft_pc = "pancake_defillama"
    /\ \E resp \in AggregatorResponses :
          Queried("pancake_defillama", resp, PancakeGetPoolsFromDefillama(resp))
    /\ Continues("pancake_defillama_returned")
    /\ UNCHANGED notFetch

\* get_top_pools after the DeFiLlama tier: the filter and the return.
PancakeAfterDefillama ==
    /\ ft_pc = "pancake_defillama_returned"
    /\ TierReturned
    /\ PancakeFinish(LastReturned)
    /\ UNCHANGED notFetch

\* The retry wrapper around the call, after an invocation that raised:
\* asyncio.sleep(delay * 2 ** attempt), then the next invocation.
FetchBackoff ==
    /\ ft_pc = "failed"
    /\ ft_attempt < FetchMaxRetries
    /\ ft_sleeps' = Append(ft_sleeps, BackoffDelay(FetchDelay, ft_attempt))
    /\ ft_attempt' = ft_attempt + 1
    /\ ft_pc' = FirstTier(ft_proto)
    /\ ft_log' = <<>>
    /\ UNCHANGED <<ft_proto, ft_limit, ft_resp, ft_tried, ft_out>>
    /\ UNCHANGED notFetch

\* The retry wrapper after the last invocation raised: raise last_exception,
\* which reaches the orchestrator.
FetchRaise ==
    /\ ft_pc = "failed"
    /\ ~(ft_attempt < FetchMaxRetries)
    /\ ft_pc' = "raised"
    /\ UNCHANGED <<ft_proto, ft_limit, ft_attempt, ft_sleeps, ft_resp, ft_log, ft_tried, ft_out>>
    /\ UNCHANGED notFetch

FetchNext ==
    \/ UniswapSubgraph
    \/ SushiSubgraph
    \/ SushiFallback
    \/ CurveApi
    \/ CurveFallback
    \/ PancakeApi
    \/ PancakeAfterApi
    \/ PancakeSubgraph
    \/ PancakeAfterSubgraph
    \/ PancakeDefillama
    \/ PancakeAfterDefillama
    \/ FetchBackoff
    \/ FetchRaise

(***************************************************************************)
(* LiquidityPoolScraper.calculate_all_metrics                              *)
(***************************************************************************)

\* batch_size = 10
batch_size == 10

\* The most pools handed to calculate_all_metrics.
MaxPools == 12

\* all_pools[i:]: every pool that is left, in one batch.
BatchRest(i, n) == [k \in 1..(n - i) |-> i + k]

\* all_pools[i:i + batch_size], as pool numbers (pool k is all_pools[k - 1]).
Batch(i, n) == [k \in 1..(Min(i + batch_size, n) - i) |-> i + k]

\* asyncio.gather(*batch_tasks) without return_exceptions: the first
\* exception of a task is raised out of gather.
GatherPropagates(tasks) ==
    [raised |-> \E k \in DOMAIN tasks : tasks[k] = "raised", results |-> tasks]

\* asyncio.gather(*batch_tasks, return_exceptions=True): one result per
\* task, in the order of the tasks; the exception of a task that raised is
\* its result.
Gather(tasks) == [raised |-> FALSE, results |-> tasks]

\* for result in batch_results:
\*     if isinstance(result, Exception): continue
\*     if result: all_metrics.append(result)
\* The PoolMetrics of pool i + k is written i + k.
RECURSIVE CollectResults(_, _, _, _)
CollectResults(results, k, i, all_metrics) ==
    IF k > Len(results) THEN all_metrics
    ELSE IF results[k] = "raised"
         THEN CollectResults(results, k + 1, i, all_metrics)
         ELSE CollectResults(results, k + 1, i, Append(all_metrics, i + k))

BatchInit ==
    /\ ba_n \in 0..MaxPools
    /\ ba_i = 0
    /\ ba_pc = "loop"
    /\ ba_tasks = <<>>
    /\ ba_raised = {}
    /\ ba_all_metrics = <<>>

BatchIdle ==
    /\ ba_n = 0
    /\ ba_i = 0
    /\ ba_pc = "idle"
    /\ ba_tasks = <<>>
    /\ ba_raised = {}
    /\ ba_all_metrics = <<>>

\* for i in range(0, len(all_pools), batch_size): one coroutine per pool of
\* the batch, handed to gather.
BatchStart ==
    /\ ba_pc = "loop"
    /\ ba_i < ba_n
    /\ ba_tasks' = [k \in DOMAIN Batch(ba_i, ba_n) |-> "running"]
    /\ ba_pc' = "gather"
    /\ UNCHANGED <<ba_n, ba_i, ba_raised, ba_all_metrics>>
    /\ UNCHANGED notBatch

\* calculate_pool_metrics of the k-th pool of the batch returns.
TaskReturns(k) ==
    /\ ba_pc = "gather"
    /\ ba_tasks[k] = "running"
    /\ ba_tasks' = [ba_tasks EXCEPT ![k] = "ok"]
    /\ UNCHANGED <<ba_n, ba_i, ba_pc, ba_raised, ba_all_metrics>>
    /\ UNCHANGED notBatch

\* calculate_pool_metrics of the k-th pool of the batch raises.
TaskRaises(k) ==
    /\ ba_pc = "gather"
    /\ ba_tasks[k] = "running"
    /\ ba_tasks' = [ba_tasks EXCEPT ![k] = "raised"]
    /\ ba_raised' = ba_raised \cup {ba_i + k}
    /\ UNCHANGED <<ba_n, ba_i, ba_pc, ba_all_metrics>>
    /\ UNCHANGED notBatch

\* gather is through: the loop over batch_results, up to the pause.  An
\* exception out of gather is caught and logged by the except around it.
BatchCollect ==
    /\ ba_pc = "gather"
    /\ \A k \in DOMAIN ba_tasks : ba_tasks[k] # "running"
    /\ LET gathered == Gather(ba_tasks)
       IN ba_all_metrics' =
            IF gathered.raised THEN ba_all_metrics
            ELSE CollectResults(gathered.results, 1, ba_i, ba_all_metrics)
    /\ ba_pc' = "pause"
    /\ UNCHANGED <<ba_n, ba_i, ba_tasks, ba_raised>>
    /\ UNCHANGED notBatch

\* await asyncio.sleep(2) is over: the next iteration.
BatchPause ==
    /\ ba_pc = "pause"
    /\ ba_i' = ba_i + batch_size
    /\ ba_tasks' = <<>>
    /\ ba_pc' = "loop"
    /\ UNCHANGED <<ba_n, ba_raised, ba_all_metrics>>
    /\ UNCHANGED notBatch

\* The range is exhausted: return all_metrics.
BatchReturn ==
    /\ ba_pc = "loop"
    /\ ~(ba_i < ba_n)
    /\ ba_pc' = "returned"
    /\ UNCHANGED <<ba_n, ba_i, ba_tasks, ba_raised, ba_all_metrics>>
    /\ UNCHANGED notBatch

BatchNext ==
    \/ BatchStart
    \/ \E k \in 1..MaxPools : k \in DOMAIN ba_tasks /\ TaskReturns(k)
    \/ \E k \in 1..MaxPools : k \in DOMAIN ba_tasks /\ TaskRaises(k)
    \/ BatchCollect
    \/ BatchPause
    \/ BatchReturn

(***************************************************************************)
(* MetricsCalculator.calculate_pool_metrics                                *)
(*                                                                         *)
(* The floats of the calculator are modelled by exact fractions n/d in     *)
(* lowest terms: a result is 0 in the model exactly when the code's        *)
(* formula gives 0.                                                        *)
(***************************************************************************)

Abs(x) == IF x < 0 THEN 0 - x ELSE x

RECURSIVE GCD(_, _)
GCD(a, b) == IF b = 0 THEN a ELSE GCD(b, a % b)

\* The fraction n/d (d > 0) in lowest terms.
Rat(n, d) == LET g == GCD(Abs(n), d) IN [n |-> n \div g, d |-> d \div g]

RInt(k) == [n |-> k, d |-> 1]

RMul(a, b) ==
    LET g1 == GCD(Abs(a.n), b.d)
        g2 == GCD(Abs(b.n), a.d)
    IN Rat((a.n \div g1) * (b.n \div g2), (a.d \div g2) * (b.d \div g1))

\* a / b for b > 0
RDiv(a, b) == RMul(a, [n |-> b.d, d |-> b.n])

RAdd(a, b) == Rat(a.n * b.d + b.n * a.d, a.d * b.d)

\* What token_prices.get(symbol, 0.0) gives: None for a price reported as
\* unknown, else a price (0.0 also for a symbol that is not in the map).
UnknownPrice == 0 - 1

LookedUpPrices == {UnknownPrice, 0, 1, 2}

\* a <= b on fractions.
RLe(a, b) == a.n * b.d <= b.n * a.d

\* min(a, b) on fractions.
RMin(a, b) == IF RLe(a, b) THEN a ELSE b

\* The TVL figures a source reports: 0 for none, and figures in and on the
\* edges of the bands of the risk score and of the liquidity depth.
ReportedTvls == {0, 1000000, 5000000, 10000000, 50000000, 60000000, 200000000}

\* The token symbols of a pool: two stable tokens, a stable and a volatile
\* one, two volatile ones.
TokenPairs == {<<"USDC", "USDT">>, <<"USDC", "ETH">>, <<"ETH", "BTC">>}

\* The pool records handed to the calculator.  address is the pool's
\* address (pool.address), chain is the network of the
\* service that fetched the pool; symbols are its first two token symbols.
\* A UniswapV3Pool has no reserve attributes (getattr gives 0.0); fee is
\* the fee tier of a UniswapV3Pool and the fee rate of a CurvePool (0.0004
\* when the pool came from the DeFiLlama fallback); rewards is rewards_apy
\* of a CurvePool and farm_apy of a PancakeSwapPool; reserve2 is
\* balances[2] of a CurvePool with three coins (0 with two) and price2 the
\* price of that coin.
MetricPools ==
    [protocol : {"Uniswap V3"}, address : {"0xu3"}, chain : {"ethereum", "polygon", "arbitrum"},
     symbols : TokenPairs, tvl_usd : ReportedTvls, fees_24h : {0, 40},
     volume_24h : {0, 1000000}, reserve0 : {0}, reserve1 : {0},
     reserve2 : {0}, price2 : {0}, fee : {RInt(3000)}, rewards : {0}]
    \cup
    [protocol : {"SushiSwap"}, address : {"0xsu"}, chain : {"ethereum", "polygon", "arbitrum"},
     symbols : TokenPairs, tvl_usd : ReportedTvls, fees_24h : {0, 40},
     volume_24h : {0, 1000000}, reserve0 : {0, 1000000}, reserve1 : {0, 1000000},
     reserve2 : {0}, price2 : {0}, fee : {RInt(0)}, rewards : {0}]
    \cup
    [protocol : {"Curve"}, address : {"0xcu"}, chain : {"ethereum", "polygon", "arbitrum"},
     symbols : {<<"USDC", "USDT">>}, tvl_usd : ReportedTvls, fees_24h : {0, 40},
     volume_24h : {0, 1000000}, reserve0 : {0, 1000000}, reserve1 : {0, 1000000},
     reserve2 : {0, 1000000}, price2 : {1},
     fee : {Rat(4, 10000), Rat(1, 10000)}, rewards : {0, 2}]
    \cup
    [protocol : {"PancakeSwap"}, address : {"0xpc"}, chain : {"bsc"},
     symbols : TokenPairs, tvl_usd : ReportedTvls, fees_24h : {0, 40},
     volume_24h : {0, 1000000}, reserve0 : {0, 1000000}, reserve1 : {0, 1000000},
     reserve2 : {0}, price2 : {0}, fee : {RInt(0)}, rewards : {0, 2}]

\* (token0_reserve * token0_price) + (token1_reserve * token1_price) raises
\* TypeError on a price that is None.
TvlRaises(pool, prices) ==
    /\ ~(pool.tvl_usd > 0)
    /\ \E t \in 1..2 : prices[t] = UnknownPrice

_calculate_tvl(pool, prices) ==
    IF pool.tvl_usd > 0 THEN RInt(pool.tvl_usd)
    ELSE RInt(pool.reserve0 * prices[1] + pool.reserve1 * prices[2])

\* The default of 0.3% for every pool.
FeeRateDefault(pool) == Rat(3, 1000)

\* _get_fee_rate
_get_fee_rate(pool) ==
    CASE pool.protocol = "Uniswap V3" -> RDiv(pool.fee, RInt(1000000))
      [] pool.protocol = "SushiSwap" -> Rat(3, 1000)
      [] pool.protocol = "Curve" -> pool.fee
      [] pool.protocol = "PancakeSwap" -> Rat(25, 10000)

_calculate_base_apr(pool, tvl_usd) ==
    IF pool.fees_24h > 0 /\ tvl_usd.n > 0
    THEN RMul(RDiv(RInt(pool.fees_24h * 365), tvl_usd), RInt(100))
    ELSE IF pool.volume_24h > 0 /\ tvl_usd.n > 0
         THEN LET fees_24h == RMul(RInt(pool.volume_24h), _get_fee_rate(pool))
              IN RMul(RDiv(RMul(fees_24h, RInt(365)), tvl_usd), RInt(100))
         ELSE RInt(0)

_get_rewards_apr(pool) ==
    IF pool.protocol \in {"Curve", "PancakeSwap"} THEN RInt(pool.rewards) ELSE RInt(0)

\* _estimate_impermanent_loss
_estimate_impermanent_loss(pool, days) ==
    LET stable_tokens == {"USDT", "USDC", "DAI", "BUSD"}
        token0_symbol == pool.symbols[1]
        token1_symbol == pool.symbols[2]
    IN  IF pool.protocol = "Curve" THEN Rat(1, 10)
        ELSE IF token0_symbol \in stable_tokens /\ token1_symbol \in stable_tokens
                THEN RMul(Rat(1, 10), RInt(days))
        ELSE IF token0_symbol \in stable_tokens \/ token1_symbol \in stable_tokens
                THEN RMul(RInt(1), RInt(days))
        ELSE RMul(RInt(2), RInt(days))

\* getattr(pool, 'network', 'ethereum'): SushiSwapPool, CurvePool and
\* PancakeSwapPool carry the network of their service; UniswapV3Pool has
\* no such attribute.
PoolNetwork(pool) ==
    IF pool.protocol = "Uniswap V3" THEN "ethereum" ELSE pool.chain

\* il_risk = min(impermanent_loss * 2, 40)
IlRisk(impermanent_loss) == RMin(RMul(impermanent_loss, RInt(2)), RInt(40))

\* tvl_risk, by the bands of tvl_usd
TvlRisk(tvl_usd) ==
    IF ~RLe(tvl_usd, RInt(50000000)) THEN 0
    ELSE IF ~RLe(tvl_usd, RInt(10000000)) THEN 10
    ELSE IF ~RLe(tvl_usd, RInt(1000000)) THEN 20
    ELSE 30

\* protocol_risk
ProtocolRisk(pool) ==
    IF pool.protocol \in {"Uniswap V3", "Curve"} THEN 0
    ELSE IF pool.protocol \in {"SushiSwap"} THEN 5
    ELSE 15

\* network_risk
NetworkRisk(pool) ==
    LET network == PoolNetwork(pool)
    IN  IF network = "ethereum" THEN 0
        ELSE IF network \in {"polygon", "arbitrum"} THEN 3
        ELSE 7

\* _calculate_risk_score: min(sum(risk_factors), 100)
_calculate_risk_score(pool, impermanent_loss, tvl_usd) ==
    RMin(RAdd(IlRisk(impermanent_loss),
              RInt(TvlRisk(tvl_usd) + ProtocolRisk(pool) + NetworkRisk(pool))),
         RInt(100))

\* _calculate_liquidity_depth, by the bands of tvl_usd
_calculate_liquidity_depth(pool, tvl_usd) ==
    IF ~RLe(tvl_usd, RInt(100000000)) THEN 10
    ELSE IF ~RLe(tvl_usd, RInt(50000000)) THEN 8
    ELSE IF ~RLe(tvl_usd, RInt(10000000)) THEN 6
    ELSE IF ~RLe(tvl_usd, RInt(1000000)) THEN 4
    ELSE 2

\* self.risk_free_rate
risk_free_rate == Rat(5, 100)

\* The value excess_return / risk with excess_return = apy - free, kept as
\* its three operands (apy is a compounded value).
Quotient(apy, free, risk) == [kind |-> "float", apy |-> apy, free |-> free, risk |-> risk]

\* A sharpe_ratio of None.
NoSharpe == [kind |-> "None"]

\* The risk_free_rate taken as a percentage already.
SharpeRatioOfFraction(apy, risk) ==
    IF RLe(risk, RInt(0)) THEN NoSharpe
    ELSE Quotient(apy, risk_free_rate, risk)

\* _calculate_sharpe_ratio
_calculate_sharpe_ratio(apy, risk) ==
    IF RLe(risk, RInt(0)) THEN NoSharpe
    ELSE Quotient(apy, RMul(risk_free_rate, RInt(100)), risk)

\* The value ((1 + daily_rate) ** 365 - 1) * 100, kept as its daily_rate:
\* it is 0 exactly when daily_rate is 0.
Compounded(daily_rate) == [daily_rate |-> daily_rate, periods |-> 365]

calculate_apy(apr) ==
    IF apr.n <= 0 THEN Compounded(RInt(0))
    ELSE Compounded(RDiv(apr, RInt(365)))

\* The price impact is 0 for a pool without liquidity.
EstimatePriceImpactZero(pool, percent) ==
    IF pool.tvl_usd = 0 THEN RInt(0)
    ELSE LET trade_size == RMul(RInt(pool.tvl_usd), RDiv(RInt(percent), RInt(100)))
             share == RDiv(trade_size, RInt(pool.tvl_usd))
         IN CASE pool.protocol = "Curve" -> RMul(share, Rat(1, 10))
              [] pool.protocol = "Uniswap V3" -> RMul(share, Rat(5, 10))
              [] OTHER -> RMul(share, Rat(3, 10))

_estimate_price_impact(pool, percent) ==
    IF pool.tvl_usd = 0 THEN RInt(100)
    ELSE LET trade_size == RMul(RInt(pool.tvl_usd), RDiv(RInt(percent), RInt(100)))
             share == RDiv(trade_size, RInt(pool.tvl_usd))
         IN CASE pool.protocol = "Curve" -> RMul(share, Rat(1, 10))
              [] pool.protocol = "Uniswap V3" -> RMul(share, Rat(5, 10))
              [] OTHER -> RMul(share, Rat(3, 10))

\* The PoolMetrics of a pool, given the looked-up prices of its two tokens.
calculate_pool_metrics(pool, prices) ==
    LET tvl_usd == _calculate_tvl(pool, prices)
        apr_base == _calculate_base_apr(pool, tvl_usd)
        apr_rewards == _get_rewards_apr(pool)
        apy_total == calculate_apy(RAdd(apr_base, apr_rewards))
        impermanent_loss_7d == _estimate_impermanent_loss(pool, 7)
    IN [protocol |-> pool.protocol,
        network |-> PoolNetwork(pool),
        pool_address |-> pool.address,
        impermanent_loss_1d |-> _estimate_impermanent_loss(pool, 1),
        impermanent_loss_7d |-> impermanent_loss_7d,
        sharpe_ratio |-> _calculate_sharpe_ratio(apy_total, impermanent_loss_7d),
        liquidity_depth |-> _calculate_liquidity_depth(pool, tvl_usd),
        risk_score |-> _calculate_risk_score(pool, impermanent_loss_7d, tvl_usd),
        token0_price |-> prices[1],
        token1_price |-> prices[2],
        tvl_usd |-> tvl_usd,
        volume_24h |-> pool.volume_24h,
        fees_24h |-> pool.fees_24h,
        apr_base |-> apr_base,
        apr_rewards |-> apr_rewards,
        apy_base |-> calculate_apy(apr_base),
        apy_total |-> apy_total,
        price_impact_1pct |-> _estimate_price_impact(pool, 1)]

NoMetrics == [protocol |-> "none"]

MetricsInit ==
    /\ mc_pool \in MetricPools
    /\ mc_prices \in [1..2 -> LookedUpPrices]
    /\ mc_pc = "call"
    /\ mc_out = NoMetrics

MetricsIdle ==
    /\ mc_pool = [protocol |-> "none"]
    /\ mc_prices = <<0, 0>>
    /\ mc_pc = "idle"
    /\ mc_out = NoMetrics

\* await metrics_calculator.calculate_pool_metrics(pool): the PoolMetrics.
CalculateReturns ==
    /\ mc_pc = "call"
    /\ ~TvlRaises(mc_pool, mc_prices)
    /\ mc_out' = calculate_pool_metrics(mc_pool, mc_prices)
    /\ mc_pc' = "returned"
    /\ UNCHANGED <<mc_pool, mc_prices>>
    /\ UNCHANGED notMetrics

\* await metrics_calculator.calculate_pool_metrics(pool): the exception of
\* _calculate_tvl reaches the caller.
CalculateRaises ==
    /\ mc_pc = "call"
    /\ TvlRaises(mc_pool, mc_prices)
    /\ mc_pc' = "raised"
    /\ UNCHANGED <<mc_pool, mc_prices, mc_out>>
    /\ UNCHANGED notMetrics

MetricsNext ==
    \/ CalculateReturns
    \/ CalculateRaises

(***************************************************************************)
(* LiquidityPoolScraper: run_complete_analysis and main (main.py)          *)
(***************************************************************************)

\* How long the --protocols and --networks lists are, at most.
MaxListed == 2

\* How many pools one fetcher call returns, at most.
MaxFetched == 1

\* The protocol names of --protocols: the four of self.services and one
\* that has no fetcher.
ProtocolNames == {"uniswap", "sushiswap", "curve", "pancakeswap", "balancer"}

NetworkNames == {"ethereum", "polygon", "arbitrum", "bsc"}

\* self.services: the networks a protocol has a fetcher on.
Services(protocol) ==
    CASE protocol \in {"uniswap", "sushiswap", "curve"} -> {"ethereum", "polygon", "arbitrum"}
      [] protocol = "pancakeswap" -> {"bsc"}
      [] OTHER -> {}

\* The lists a run is configured with: names in any order, none twice.
ListsOver(S) ==
    {s \in UNION {[1..k -> S] : k \in 1..MaxListed} :
        \A i, j \in DOMAIN s : i # j => s[i] # s[j]}

\* The TVL of a pool a fetcher returns: the fetchers keep the pools at or
\* above MIN_TVL_THRESHOLD.
CollectedTvls == {MIN_TVL_THRESHOLD, 250000}

\* The two loops of collect_all_pool_data with their `continue`s: the
\* combinations a fetcher is called for, in the order of the calls.
RECURSIVE Combinations(_, _, _, _)
Combinations(protocols, networks, p, n) ==
    IF p > Len(protocols) THEN <<>>
    ELSE IF n > Len(networks) THEN Combinations(protocols, networks, p + 1, 1)
    ELSE IF networks[n] \in Services(protocols[p])
         THEN <<[protocol |-> protocols[p], network |-> networks[n]]>>
                  \o Combinations(protocols, networks, p, n + 1)
         ELSE Combinations(protocols, networks, p, n + 1)

\* What a fetcher call hands back: a list of pools, or an exception (a
\* fetcher that returns None makes len(pools) raise inside the same try).
FetchedLists(combination) ==
    UNION {[1..k -> [protocol : {combination.protocol},
                     network : {combination.network},
                     tvl_usd : CollectedTvls]] : k \in 0..MaxFetched}

\* _get_protocol_name
_get_protocol_name(pool) ==
    CASE pool.protocol = "uniswap" -> "Uniswap V3"
      [] pool.protocol = "sushiswap" -> "SushiSwap"
      [] pool.protocol = "curve" -> "Curve"
      [] pool.protocol = "pancakeswap" -> "PancakeSwap"
      [] OTHER -> "Unknown"

\* What calculate_pool_metrics comes to for one pool: an exception, or a
\* PoolMetrics (tvl_usd is the pool's own when that is positive) whose token
\* prices are numbers (priced) or None.
ComputeOutcomes == {"raised", "priced", "unpriced"}

PoolMetricsOf(pool, outcome) ==
    [protocol |-> _get_protocol_name(pool), network |-> pool.network,
     tvl_usd |-> pool.tvl_usd, priced |-> outcome = "priced"]

\* calculate_all_metrics: the results of every batch in the order of the
\* pools, the exceptions left out.
RECURSIVE calculate_all_metrics(_, _, _)
calculate_all_metrics(all_pools, outcomes, k) ==
    IF k > Len(all_pools) THEN <<>>
    ELSE IF outcomes[k] = "raised"
         THEN calculate_all_metrics(all_pools, outcomes, k + 1)
         ELSE <<PoolMetricsOf(all_pools[k], outcomes[k])>>
                  \o calculate_all_metrics(all_pools, outcomes, k + 1)

\* A descending sort that puts a later entry before earlier ones of the
\* same TVL.
RECURSIVE InsertByTvlUnstable(_, _)
InsertByTvlUnstable(sorted, m) ==
    IF sorted = <<>> THEN <<m>>
    ELSE IF Head(sorted).tvl_usd > m.tvl_usd
         THEN <<Head(sorted)>> \o InsertByTvlUnstable(Tail(sorted), m)
         ELSE <<m>> \o sorted

\* list.sort(key=lambda x: x.tvl_usd, reverse=True): stable, descending.
RECURSIVE InsertByTvl(_, _)
InsertByTvl(sorted, m) ==
    IF sorted = <<>> THEN <<m>>
    ELSE IF Head(sorted).tvl_usd >= m.tvl_usd
         THEN <<Head(sorted)>> \o InsertByTvl(Tail(sorted), m)
         ELSE <<m>> \o sorted

RECURSIVE SortByTvl(_)
SortByTvl(s) ==
    IF s = <<>> THEN <<>>
    ELSE InsertByTvl(SortByTvl(SubSeq(s, 1, Len(s) - 1)), s[Len(s)])

\* organize_by_protocol: a dict from the protocols that occur in
\* all_metrics to their metrics, each list sorted by TVL.
organize_by_protocol(all_metrics) ==
    [protocol \in {all_metrics[i].protocol : i \in DOMAIN all_metrics} |->
        SortByTvl(SelectSeq(all_metrics, LAMBDA m : m.protocol = protocol))]

\* create_comprehensive_report raises on its inputs: with no metrics the
\* summary DataFrame has no 'TVL (USD)' column to sort by (KeyError); a
\* token price of None fails `p.token0_price > 0` (TypeError).
ReportRaises(all_metrics) ==
    \/ all_metrics = <<>>
    \/ \E i \in DOMAIN all_metrics : ~all_metrics[i].priced

NoOutcome == [kind |-> "none", breakdown |-> <<>>]

PipelineInit ==
    /\ pl_protocols \in ListsOver(ProtocolNames)
    /\ pl_networks \in ListsOver(NetworkNames)
    /\ pl_pc = "collect"
    /\ pl_k = 1
    /\ pl_all_pools = <<>>
    /\ pl_fetches = <<>>
    /\ pl_all_metrics = <<>>
    /\ pl_breakdown = <<>>
    /\ pl_out = NoOutcome
    /\ pl_exit = 0 - 1

PipelineIdle ==
    /\ pl_protocols = <<>>
    /\ pl_networks = <<>>
    /\ pl_pc = "idle"
    /\ pl_k = 0
    /\ pl_all_pools = <<>>
    /\ pl_fetches = <<>>
    /\ pl_all_metrics = <<>>
    /\ pl_breakdown = <<>>
    /\ pl_out = NoOutcome
    /\ pl_exit = 0 - 1

\* The combinations of the configured run.
Registered == Combinations(pl_protocols, pl_networks, 1, 1)

\* collect_all_pool_data, one combination: the fetcher returns its pools,
\* all_pools.extend(pools).
CollectFetchReturns ==
    /\ pl_pc = "collect"
    /\ pl_k <= Len(Registered)
    /\ \E pools \in FetchedLists(Registered[pl_k]) :
          /\ pl_all_pools' = pl_all_pools \o pools
          /\ pl_fetches' = Append(pl_fetches,
                                  [combination |-> Registered[pl_k],
                                   raised |-> FALSE,
                                   before |-> pl_all_pools,
                                   pools |-> pools])
    /\ pl_k' = pl_k + 1
    /\ UNCHANGED <<pl_protocols, pl_networks, pl_pc, pl_all_metrics,
                   pl_breakdown, pl_out, pl_exit>>
    /\ UNCHANGED notPipeline

\* The except clause leaving both loops instead of continuing.
ExceptBreak(k, n) == n + 1

\* except Exception: log, then `continue`: the combination to go on with
\* after combination k of n raised.
ExceptContinue(k, n) == k + 1

\* collect_all_pool_data, one combination: the fetcher raises; the except
\* clause logs and continues with the next combination.
CollectFetchRaises ==
    /\ pl_pc = "collect"
    /\ pl_k <= Len(Registered)
    /\ pl_fetches' = Append(pl_fetches,
                            [combination |-> Registered[pl_k],
                             raised |-> TRUE,
                             before |-> pl_all_pools,
                             pools |-> <<>>])
    /\ pl_k' = ExceptContinue(pl_k, Len(Registered))
    /\ UNCHANGED <<pl_protocols, pl_networks, pl_pc, pl_all_pools,
                   pl_all_metrics, pl_breakdown, pl_out, pl_exit>>
    /\ UNCHANGED notPipeline

\* collect_all_pool_data returns all_pools; run_complete_analysis returns
\* None when the list is empty and goes on to the metrics otherwise.
CollectReturns ==
    /\ pl_pc = "collect"
    /\ pl_k > Len(Registered)
    /\ IF pl_all_pools = <<>>
          THEN /\ pl_pc' = "returned"
               /\ pl_out' = [kind |-> "None", breakdown |-> <<>>]
          ELSE /\ pl_pc' = "compute"
               /\ pl_out' = pl_out
    /\ UNCHANGED <<pl_protocols, pl_networks, pl_k, pl_all_pools, pl_fetches,
                   pl_all_metrics, pl_breakdown, pl_exit>>
    /\ UNCHANGED notPipeline

\* Step 2: all_metrics = await self.calculate_all_metrics(all_pools)
ComputeMetrics ==
    /\ pl_pc = "compute"
    /\ \E outcomes \in [1..Len(pl_all_pools) -> ComputeOutcomes] :
          pl_all_metrics' = calculate_all_metrics(pl_all_pools, outcomes, 1)
    /\ pl_pc' = "organize"
    /\ UNCHANGED <<pl_protocols, pl_networks, pl_k, pl_all_pools, pl_fetches,
                   pl_breakdown, pl_out, pl_exit>>
    /\ UNCHANGED notPipeline

\* Step 3: protocol_breakdown = self.organize_by_protocol(all_metrics)
Organize ==
    /\ pl_pc = "organize"
    /\ pl_breakdown' = organize_by_protocol(pl_all_metrics)
    /\ pl_pc' = "export"
    /\ UNCHANGED <<pl_protocols, pl_networks, pl_k, pl_all_pools, pl_fetches,
                   pl_all_metrics, pl_out, pl_exit>>
    /\ UNCHANGED notPipeline

\* Steps 4 and 5: the report is written, the summary printed and the
\* filename returned.
ExportReturns ==
    /\ pl_pc = "export"
    /\ ~ReportRaises(pl_all_metrics)
    /\ pl_pc' = "returned"
    /\ pl_out' = [kind |-> "filename", breakdown |-> pl_breakdown]
    /\ UNCHANGED <<pl_protocols, pl_networks, pl_k, pl_all_pools, pl_fetches,
                   pl_all_metrics, pl_breakdown, pl_exit>>
    /\ UNCHANGED notPipeline

\* Step 4 raises, on its inputs or on writing the file: the except clause
\* of run_complete_analysis logs and re-raises.
ExportRaises ==
    /\ pl_pc = "export"
    /\ pl_pc' = "raised"
    /\ pl_out' = [kind |-> IF ReportRaises(pl_all_metrics) THEN "report_error"
                                                          ELSE "io_error",
                  breakdown |-> <<>>]
    /\ UNCHANGED <<pl_protocols, pl_networks, pl_k, pl_all_pools, pl_fetches,
                   pl_all_metrics, pl_breakdown, pl_exit>>
    /\ UNCHANGED notPipeline

\* main: exit code 0 for a filename, 1 for None and for an exception.
MainExit ==
    /\ pl_pc \in {"returned", "raised"}
    /\ pl_exit' = IF pl_pc = "returned" /\ pl_out.kind = "filename" THEN 0 ELSE 1
    /\ pl_pc' = "exited"
    /\ UNCHANGED <<pl_protocols, pl_networks, pl_k, pl_all_pools, pl_fetches,
                   pl_all_metrics, pl_breakdown, pl_out>>
    /\ UNCHANGED notPipeline

PipelineNext ==
    \/ CollectFetchReturns
    \/ CollectFetchRaises
    \/ CollectReturns
    \/ ComputeMetrics
    \/ Organize
    \/ ExportReturns
    \/ ExportRaises
    \/ MainExit

(***************************************************************************)
(* One batch of calculate_all_metrics against the price oracle: the        *)
(* concurrent calculate_pool_metrics coroutines of asyncio.gather, each    *)
(* calling get_prices on the one RedStoneService and its price_cache.      *)
(***************************************************************************)

\* How many pools the batch holds.
GatherPools == 2

\* The pools of the batch: the protocol, the two token symbols and the TVL
\* the fetcher reported (at or above MIN_TVL_THRESHOLD).
GatheredPools ==
    [protocol : {"uniswap", "sushiswap"}, syms : SymbolLists, tvl_usd : CollectedTvls]

\* The time of the batch: the run is far shorter than the cache TTL.
GatherNow == 0

\* A coroutine that has not yet reached its cache check.
NotStarted == [pc |-> "created", results |-> <<>>, tofetch |-> <<>>]

\* The PoolMetrics of pool k, as far as the token prices and the grouping
\* go: tvl_usd is the pool's own (it is positive), the token prices are
\* read from the get_prices result under the lower-cased symbols.
GatheredMetrics(pool, k, token_prices) ==
    [protocol |-> _get_protocol_name(pool),
     pool_address |-> k,
     tvl_usd |-> pool.tvl_usd,
     token0_price |-> TokenPriceRead(token_prices, pool.syms[1]),
     token1_price |-> TokenPriceRead(token_prices, pool.syms[2])]

\* get_prices from the arrival of the response on: an empty response
\* returns the hits alone, an exception in the second loop returns None for
\* every symbol.
ReadResponse(symbols, results, tofetch, resp, cache) ==
    LET r == IF DOMAIN resp = {}
                THEN [cache |-> cache, results |-> results, raised |-> FALSE]
                ELSE FetchLoop(tofetch, 1, resp, cache, GatherNow, results)
    IN  [cache |-> r.cache,
         value |-> IF r.raised THEN GetPricesExcept(symbols).value ELSE r.results]

\* The batch with its coroutines run one after the other, each to its end
\* before the next begins: the price cache after pool k and the metrics of
\* pools 1..k.
RECURSIVE OneByOne(_, _, _)
OneByOne(pools, resp, k) ==
    IF k = 0 THEN [cache |-> [key \in CacheKeys |-> NoEntry], all_metrics |-> <<>>]
    ELSE LET before == OneByOne(pools, resp, k - 1)
             checked == CheckLoop(pools[k].syms, 1, before.cache, GatherNow, <<>>, <<>>)
             read == IF checked.tofetch = <<>>
                        THEN [cache |-> before.cache, value |-> checked.results]
                        ELSE ReadResponse(pools[k].syms, checked.results,
                                          checked.tofetch, resp, before.cache)
         IN  [cache |-> read.cache,
              all_metrics |-> Append(before.all_metrics,
                                     GatheredMetrics(pools[k], k, read.value))]

GatherInit ==
    /\ ga_pools \in [1..GatherPools -> GatheredPools]
    /\ ga_resp \in Responses
    /\ ga_cache = [key \in CacheKeys |-> NoEntry]
    /\ ga_task = [k \in 1..GatherPools |-> NotStarted]
    /\ ga_results = [k \in 1..GatherPools |-> NoMetrics]
    /\ ga_pc = "gather"
    /\ ga_out = <<>>

GatherIdle ==
    /\ ga_pools = <<>>
    /\ ga_resp = <<>>
    /\ ga_cache = <<>>
    /\ ga_task = <<>>
    /\ ga_results = <<>>
    /\ ga_pc = "idle"
    /\ ga_out = <<>>

\* Coroutine k runs from its start through the limiter's wait and the cache
\* check of get_prices; the coroutines get there in the order gather
\* started them.  With every symbol fresh in the cache get_prices returns
\* the hits and the metrics are computed at once; otherwise the coroutine
\* awaits the remote response.
GatherCheck(k) ==
    /\ ga_pc = "gather"
    /\ ga_task[k].pc = "created"
    /\ \A j \in 1..(k - 1) : ga_task[j].pc # "created"
    /\ LET checked == CheckLoop(ga_pools[k].syms, 1, ga_cache, GatherNow, <<>>, <<>>)
       IN  IF checked.tofetch = <<>>
              THEN /\ ga_task' = [ga_task EXCEPT ![k].pc = "done"]
                   /\ ga_results' = [ga_results EXCEPT ![k] =
                                        GatheredMetrics(ga_pools[k], k, checked.results)]
              ELSE /\ ga_task' = [ga_task EXCEPT ![k] =
                                     [pc |-> "fetching", results |-> checked.results,
                                      tofetch |-> checked.tofetch]]
                   /\ ga_results' = ga_results
    /\ UNCHANGED <<ga_pools, ga_resp, ga_cache, ga_pc, ga_out>>
    /\ UNCHANGED notGather

\* The remote response of coroutine k arrives: get_prices reads it, caches
\* what it parsed and returns; the rest of calculate_pool_metrics follows
\* without another await.
GatherFetched(k) ==
    /\ ga_pc = "gather"
    /\ ga_task[k].pc = "fetching"
    /\ LET read == ReadResponse(ga_pools[k].syms, ga_task[k].results,
                                ga_task[k].tofetch, ga_resp, ga_cache)
       IN  /\ ga_cache' = read.cache
           /\ ga_results' = [ga_results EXCEPT ![k] =
                                GatheredMetrics(ga_pools[k], k, read.value)]
    /\ ga_task' = [ga_task EXCEPT ![k].pc = "done"]
    /\ UNCHANGED <<ga_pools, ga_resp, ga_pc, ga_out>>
    /\ UNCHANGED notGather

\* Every coroutine is through: gather returns the results in the order of
\* the tasks, all_metrics takes them over and organize_by_protocol groups
\* them.
GatherDone ==
    /\ ga_pc = "gather"
    /\ \A k \in 1..GatherPools : ga_task[k].pc = "done"
    /\ ga_out' = organize_by_protocol(ga_results)
    /\ ga_pc' = "organized"
    /\ UNCHANGED <<ga_pools, ga_resp, ga_cache, ga_task, ga_results>>
    /\ UNCHANGED notGather

GatherNext ==
    \/ \E k \in 1..GatherPools : GatherCheck(k)
    \/ \E k \in 1..GatherPools : GatherFetched(k)
    \/ GatherDone

(***************************************************************************)
(* The parsers of the fetchers: one entry of a response to one pool record *)
(***************************************************************************)

\* The figures of a numeric field of an entry: not in the entry, 0, a
\* positive figure.
Figures == {Absent, 0, 10000}

\* How many tokens an entry names, at most (the coins of a Curve pool, the
\* parts of the symbol of a DeFiLlama entry).
MaxTokens == 3

\* One entry of a response.  tokens: how many tokens it names; reserve: the
\* reserve figure of each of them; rest: the fields that are read without a
\* default are there and every field read parses.
ProviderEntries ==
    [tokens : 1..MaxTokens, rest : BOOLEAN, tvl : Figures, volume : Figures,
     fees : Figures, reserve : Figures]

\* float(d.get(key, 0))
GetFloat(field) == IF field = Absent THEN RInt(0) ELSE RInt(field)

\* A field of the dataclass that the parser does not pass: its default 0.0.
FieldDefault == RInt(0)

\* A pool record: the token symbols and the reserves as lists.
PoolRecord(symbols, reserves, tvl_usd, volume_24h, fees_24h) ==
    [kind |-> "pool", symbols |-> symbols, reserves |-> reserves,
     tvl_usd |-> tvl_usd, volume_24h |-> volume_24h, fees_24h |-> fees_24h]

\* The parser returned None.
NoPool == [kind |-> "None"]

\* token0_symbol, token1_symbol
PairSymbols == <<1, 2>>

\* UniswapV3Service._parse_pool_data: no reserve is passed.
UniswapPoolOf(e) ==
    IF ~e.rest THEN NoPool
    ELSE PoolRecord(PairSymbols, <<FieldDefault, FieldDefault>>,
                    GetFloat(e.tvl), GetFloat(e.volume), GetFloat(e.fees))

\* SushiSwapService._parse_pool_data: pair_data['reserve0'] raises KeyError
\* on an entry without it; the fees are 0.3% of the volume.
SushiPoolOf(e) ==
    IF ~e.rest \/ e.reserve = Absent THEN NoPool
    ELSE PoolRecord(PairSymbols, <<RInt(e.reserve), RInt(e.reserve)>>,
                    GetFloat(e.tvl), GetFloat(e.volume),
                    RMul(GetFloat(e.volume), Rat(3, 1000)))

\* SushiSwapService._parse_api_pool_data: no reserve is passed.
SushiApiPoolOf(e) ==
    IF ~e.rest THEN NoPool
    ELSE PoolRecord(PairSymbols, <<FieldDefault, FieldDefault>>,
                    GetFloat(e.tvl), GetFloat(e.volume), GetFloat(e.fees))

\* CurveService._parse_pool_data: a symbol and a balance per coin; the fees
\* are the volume times the fee rate (taken as 0.04% here).
CurvePoolOf(e) ==
    IF ~e.rest THEN NoPool
    ELSE PoolRecord([i \in 1..e.tokens |-> i],
                    [i \in 1..e.tokens |-> GetFloat(e.reserve)],
                    GetFloat(e.tvl), GetFloat(e.volume),
                    RMul(GetFloat(e.volume), Rat(4, 10000)))

\* CurveService._parse_defillama_pool_data: coin_symbols are the parts of
\* the entry's symbol, balances=[]; volume and fees are not passed.
CurveDefillamaPoolOf(e) ==
    IF ~e.rest THEN NoPool
    ELSE PoolRecord([i \in 1..e.tokens |-> i], <<>>,
                    GetFloat(e.tvl), FieldDefault, FieldDefault)

\* PancakeSwapService._parse_api_pool_data: the fees are 0.25% of the volume.
PancakeApiPoolOf(e) ==
    IF ~e.rest THEN NoPool
    ELSE PoolRecord(PairSymbols, <<GetFloat(e.reserve), GetFloat(e.reserve)>>,
                    GetFloat(e.tvl), GetFloat(e.volume),
                    RMul(GetFloat(e.volume), Rat(25, 10000)))

\* PancakeSwapService._parse_subgraph_pool_data
PancakeSubgraphPoolOf(e) ==
    IF ~e.rest \/ e.reserve = Absent THEN NoPool
    ELSE PoolRecord(PairSymbols, <<RInt(e.reserve), RInt(e.reserve)>>,
                    GetFloat(e.tvl), GetFloat(e.volume),
                    RMul(GetFloat(e.volume), Rat(25, 10000)))

\* PancakeSwapService._parse_defillama_pool_data: the first two parts of the
\* entry's symbol; reserves, volume and fees are not passed.
PancakeDefillamaPoolOf(e) ==
    IF ~e.rest THEN NoPool
    ELSE PoolRecord(PairSymbols, <<FieldDefault, FieldDefault>>,
                    GetFloat(e.tvl), FieldDefault, FieldDefault)

\* The pool record a tier builds from an entry.
PoolOf(tier, e) ==
    CASE tier = "uniswap_subgraph" -> UniswapPoolOf(e)
      [] tier = "sushi_subgraph" -> SushiPoolOf(e)
      [] tier = "sushi_api" -> SushiApiPoolOf(e)
      [] tier = "curve_api" -> CurvePoolOf(e)
      [] tier = "curve_defillama" -> CurveDefillamaPoolOf(e)
      [] tier = "pancake_api" -> PancakeApiPoolOf(e)
      [] tier = "pancake_subgraph" -> PancakeSubgraphPoolOf(e)
      [] tier = "pancake_defillama" -> PancakeDefillamaPoolOf(e)

\* A tier is about to parse an entry of the response it got.
ParseInit ==
    /\ pr_tier \in Tiers
    /\ pr_entry \in ProviderEntries
    /\ pr_pc = "parse"
    /\ pr_pool = NoPool

ParseIdle ==
    /\ pr_tier = "uniswap_subgraph"
    /\ pr_entry = NoPool
    /\ pr_pc = "idle"
    /\ pr_pool = NoPool

\* pool = self._parse_...(entry)
ParseReturns ==
    /\ pr_pc = "parse"
    /\ pr_pool' = PoolOf(pr_tier, pr_entry)
    /\ pr_pc' = "parsed"
    /\ UNCHANGED <<pr_tier, pr_entry>>
    /\ UNCHANGED notParse

ParseNext == ParseReturns

(***************************************************************************)
(* Specifications: one per component, the others idle                      *)
(***************************************************************************)

\* Every component but one at its idle values.
IdleButRetry ==
    LimiterIdle /\ OracleIdle /\ FetchIdle /\ BatchIdle /\ MetricsIdle /\ PipelineIdle /\ GatherIdle /\ ParseIdle

IdleButLimiter ==
    RetryIdle /\ OracleIdle /\ FetchIdle /\ BatchIdle /\ MetricsIdle /\ PipelineIdle /\ GatherIdle /\ ParseIdle

IdleButOracle ==
    RetryIdle /\ LimiterIdle /\ FetchIdle /\ BatchIdle /\ MetricsIdle /\ PipelineIdle /\ GatherIdle /\ ParseIdle

IdleButFetch ==
    RetryIdle /\ LimiterIdle /\ OracleIdle /\ BatchIdle /\ MetricsIdle /\ PipelineIdle /\ GatherIdle /\ ParseIdle

IdleButBatch ==
    RetryIdle /\ LimiterIdle /\ OracleIdle /\ FetchIdle /\ MetricsIdle /\ PipelineIdle /\ GatherIdle /\ ParseIdle

IdleButMetrics ==
    RetryIdle /\ LimiterIdle /\ OracleIdle /\ FetchIdle /\ BatchIdle /\ PipelineIdle /\ GatherIdle /\ ParseIdle

IdleButPipeline ==
    RetryIdle /\ LimiterIdle /\ OracleIdle /\ FetchIdle /\ BatchIdle /\ MetricsIdle /\ GatherIdle /\ ParseIdle

IdleButGather ==
    RetryIdle /\ LimiterIdle /\ OracleIdle /\ FetchIdle /\ BatchIdle /\ MetricsIdle /\ PipelineIdle /\ ParseIdle

IdleButParse ==
    RetryIdle /\ LimiterIdle /\ OracleIdle /\ FetchIdle /\ BatchIdle /\ MetricsIdle /\ PipelineIdle /\ GatherIdle

InitRetry == RetryInit /\ IdleButRetry

SpecRetry == InitRetry /\ [][RetryNext]_vars

InitLimiter == LimiterInit /\ IdleButLimiter

SpecLimiter == InitLimiter /\ [][LimiterNext]_vars

InitOracle == OracleInit /\ IdleButOracle

SpecOracle == InitOracle /\ [][OracleNext]_vars

InitFetch == FetchInit /\ IdleButFetch

SpecFetch == InitFetch /\ [][FetchNext]_vars

InitBatch == BatchInit /\ IdleButBatch

SpecBatch == InitBatch /\ [][BatchNext]_vars

InitMetrics == MetricsInit /\ IdleButMetrics

SpecMetrics == InitMetrics /\ [][MetricsNext]_vars

InitPipeline == PipelineInit /\ IdleButPipeline

SpecPipeline == InitPipeline /\ [][PipelineNext]_vars

InitGather == GatherInit /\ IdleButGather

SpecGather == InitGather /\ [][GatherNext]_vars

InitParse == ParseInit /\ IdleButParse

SpecParse == InitParse /\ [][ParseNext]_vars

(***************************************************************************)
(* Claims                                                                  *)
(***************************************************************************)

\* C1: an operation that raises on every invocation is invoked exactly
\* max_retries + 1 times, and the exception the wrapper then raises to its
\* caller is the one raised by the last invocation.
RetryExhaustedPropagatesLast ==
    rt_pc = "raised" =>
        /\ Len(rt_log) = rt_max + 1
        /\ \A i \in 1..Len(rt_log) : rt_log[i] \in Exceptions
        /\ rt_out = rt_log[Len(rt_log)]

\* A run with retries in which the first and the last invocation raised
\* different exceptions, and the wrapper has raised.
RetryExhaustedWitness ==
    /\ rt_pc = "raised"
    /\ rt_max >= 2
    /\ Len(rt_log) = rt_max + 1
    /\ rt_log[1] # rt_log[Len(rt_log)]

\* C2 as stated: in PancakeSwapService.get_top_pools a tier is only queried
\* after every earlier tier has failed (exception or status other than 200),
\* and when the primary fails and the secondary succeeds the tertiary is not
\* queried and the result is built from the secondary's pools.
PancakeTierAfterFailedTiers ==
    ft_proto = "pancakeswap" =>
        /\ \A i \in 1..Len(ft_log) : \A j \in 1..(i - 1) : ft_log[j].status # "ok"
        /\ (/\ Len(ft_log) >= 2
            /\ ft_log[1].status # "ok"
            /\ ft_log[2].status = "ok")
               => /\ Len(ft_log) = 2
                  /\ ft_pc = "returned" =>
                        ft_out = Take(SelectSeq(ft_log[2].pools, MeetsThreshold),
                                      MAX_POOLS_PER_DEX)

\* C2 amended: a tier is only queried after every earlier tier has yielded
\* no pool (it failed, or it answered with no pool that parses), and when
\* the secondary yields a pool the tertiary is not queried and the result
\* is built from the secondary's pools.
PancakeTierAfterEmptyTiers ==
    ft_proto = "pancakeswap" =>
        /\ \A i \in 1..Len(ft_log) : \A j \in 1..(i - 1) : ft_log[j].pools = <<>>
        /\ (Len(ft_log) >= 2 /\ ft_log[2].pools # <<>>)
               => /\ Len(ft_log) = 2
                  /\ ft_pc \in {"pancake_subgraph_returned", "returned"}
                  /\ ft_pc = "returned" =>
                        ft_out = Take(SelectSeq(ft_log[2].pools, MeetsThreshold),
                                      MAX_POOLS_PER_DEX)

\* The API tier failed, the subgraph yielded pools, and get_top_pools
\* returned pools without a query to DeFiLlama.
PancakeSecondaryWitness ==
    /\ ft_proto = "pancakeswap"
    /\ ft_pc = "returned"
    /\ Len(ft_log) = 2
    /\ ft_log[1].status # "ok"
    /\ ft_log[2].status = "ok"
    /\ ft_tried["pancake_defillama"] = 0
    /\ ft_out # <<>>

\* The pools of the batches gathered so far.
Gathered == IF ba_pc = "pause" THEN Min(ba_i + batch_size, ba_n) ELSE Min(ba_i, ba_n)

\* C3: all_metrics holds exactly one PoolMetrics for every pool of the
\* batches gathered so far whose computation did not raise, in the order of
\* the pools, and none for a pool whose computation raised.
BatchIsolation ==
    ba_all_metrics =
        SelectSeq([k \in 1..Gathered |-> k], LAMBDA k : k \notin ba_raised)

\* A batch of 10 pools of which the 4th raised: the run returned 9 metrics.
BatchIsolationWitness ==
    /\ ba_pc = "returned"
    /\ ba_n = batch_size
    /\ ba_raised = {4}
    /\ Len(ba_all_metrics) = 9

\* C4: any two returns of wait() on the one limiter are at least
\* 1 / calls_per_second apart, also when coroutines call it concurrently.
LimiterReturnsSpaced ==
    \A i, j \in 1..Len(rl_returns) :
        i < j => rl_returns[j] - rl_returns[i] >= min_interval

\* Two completed get_price calls for the same symbol, whatever the letter
\* case, begun less than the TTL apart.
SamePriceCalls(i, j) ==
    /\ i # j
    /\ po_hist[i].op = "get_price"
    /\ po_hist[j].op = "get_price"
    /\ Upper(po_hist[i].syms[1]) = Upper(po_hist[j].syms[1])
    /\ po_hist[i].start <= po_hist[j].start
    /\ po_hist[j].start - po_hist[i].start < cache_ttl

\* C5 as stated, for two calls one after the other: two get_price calls
\* for the same symbol (in any letter case) made less than 5 minutes apart
\* issue at most one remote fetch.
PriceTwoCallsOneFetch ==
    \A i, j \in DOMAIN po_hist :
        (SamePriceCalls(i, j) /\ po_hist[j].after >= i) =>
            ~(po_hist[i].fetched # <<>> /\ po_hist[j].fetched # <<>>)

\* C5 amended: when the first of the two calls has returned a price before
\* the second begins, the two issue at most one remote fetch, and a second
\* call that follows a fetching first one is answered from the cache.
PriceSecondCallFromCache ==
    \A i, j \in DOMAIN po_hist :
        (/\ SamePriceCalls(i, j)
         /\ po_hist[j].after >= i
         /\ po_hist[i].result # NoPrice)
            => /\ ~(po_hist[i].fetched # <<>> /\ po_hist[j].fetched # <<>>)
               /\ po_hist[i].fetched # <<>> => po_hist[j].result # NoPrice

\* A get_price("et") that fetched a price, then, some minutes later and
\* within the TTL, a get_price("ET") that sent nothing to the remote service.
PriceSecondCallWitness ==
    /\ Len(po_hist) = 2
    /\ SamePriceCalls(1, 2)
    /\ po_hist[1].syms # po_hist[2].syms
    /\ po_hist[2].after >= 1
    /\ po_hist[2].start > po_hist[1].start + 1
    /\ po_hist[1].fetched # <<>>
    /\ po_hist[1].result # NoPrice
    /\ po_hist[2].fetched = <<>>
    /\ po_hist[2].result = po_hist[1].result

\* C6 as stated: a pool whose TVL is 0 gets an APR, an APY and a price
\* impact of exactly 0.
ZeroTvlAllZero ==
    (mc_pc = "returned" /\ mc_out.tvl_usd.n = 0) =>
        /\ mc_out.apr_base.n = 0
        /\ mc_out.apy_base.daily_rate.n = 0
        /\ mc_out.price_impact_1pct.n = 0

\* C6 amended: a pool whose TVL is 0 gets an APR and an APY of exactly 0,
\* no division by zero happens, and its price impact is 100, the maximum.
ZeroTvlZeroYieldMaxImpact ==
    (mc_pc = "returned" /\ mc_out.tvl_usd.n = 0) =>
        /\ mc_out.apr_base = RInt(0)
        /\ mc_out.apy_base = Compounded(RInt(0))
        /\ mc_out.price_impact_1pct = RInt(100)
        /\ mc_out.apr_base.d > 0
        /\ mc_out.apy_base.daily_rate.d > 0
        /\ mc_out.price_impact_1pct.d > 0

\* A pool with fees and volume but a TVL of 0 has got its metrics.
ZeroTvlWitness ==
    /\ mc_pc = "returned"
    /\ mc_out.tvl_usd.n = 0
    /\ mc_pool.fees_24h > 0
    /\ mc_pool.volume_24h > 0
    /\ mc_out.price_impact_1pct = RInt(100)

\* C7: when every source queried by the call has failed (exception or a
\* status other than 200), the call ends by returning an empty list to the
\* orchestrator, not by raising.
AllSourcesFailedReturnsEmpty ==
    (/\ ft_pc \in {"returned", "raised"}
     /\ ft_log # <<>>
     /\ \A i \in 1..Len(ft_log) : ft_log[i].status # "ok")
        => (ft_pc = "returned" /\ ft_out = <<>>)

\* C8: a fetcher escalates past a source that failed (exception or a status
\* other than 200) only after the source has been tried max_retries + 1
\* times, with the backoff sleeps in between.
TierRetriedBeforeEscalation ==
    \A i \in 2..Len(ft_log) :
        ft_log[i - 1].status # "ok" =>
            /\ ft_tried[ft_log[i - 1].tier] >= FetchMaxRetries + 1
            /\ Len(ft_sleeps) >= FetchMaxRetries

\* The invocation of the fetcher is over.
FetchEnded == ft_pc \in {"returned", "failed", "raised"}

FetcherChain(protocol) ==
    CASE protocol = "uniswap" -> <<"uniswap_subgraph">>
      [] protocol = "sushiswap" -> <<"sushi_subgraph", "sushi_api">>
      [] protocol = "curve" -> <<"curve_api", "curve_defillama">>
      [] protocol = "pancakeswap" ->
            <<"pancake_api", "pancake_subgraph", "pancake_defillama">>

WantedEntry(e) ==
    /\ e.tvl # Malformed
    /\ e.rest
    /\ e.tag = "match"
    /\ TvlOf(e) >= MIN_TVL_THRESHOLD

\* C10: from a 200 response (with no more entries than the cap on pools),
\* every well-formed entry that meets the TVL threshold is among the pools
\* the tier yields, whatever the other entries of the response are.
MalformedEntrySkippedAlone ==
    (/\ ft_log # <<>>
     /\ ft_resp.status = "ok"
     /\ Len(ft_resp.entries) <= MAX_POOLS_PER_DEX)
        => \A i \in 1..Len(ft_resp.entries) :
              WantedEntry(ft_resp.entries[i]) =>
                  \E k \in 1..Len(ft_log[Len(ft_log)].pools) :
                      ft_log[Len(ft_log)].pools[k].addr = i

\* C11 (as stated): a run that met only provider failures and per-pool
\* computation failures, however many, ends having gone through
\* collection, computation and grouping and delivers the grouped metrics of
\* the pools that succeeded; it never ends in a failure outcome (None or an
\* exception).
RunEndsDelivering ==
    (pl_pc \in {"returned", "raised"} /\ pl_out.kind # "io_error")
        => /\ pl_out.kind = "filename"
           /\ pl_out.breakdown = organize_by_protocol(pl_all_metrics)

\* C12: the exception of one combination's fetcher skips that combination
\* alone: the pools collected before it are still in all_pools, in place,
\* the next call starts from the same list, and once collection is over
\* every later registered combination has been fetched, in order.
FetcherExceptionSkipsOnlyItself ==
    \A i \in DOMAIN pl_fetches :
        pl_fetches[i].raised =>
            /\ Len(pl_fetches[i].before) <= Len(pl_all_pools)
            /\ SubSeq(pl_all_pools, 1, Len(pl_fetches[i].before)) = pl_fetches[i].before
            /\ i < Len(pl_fetches) => pl_fetches[i + 1].before = pl_fetches[i].before
            /\ pl_pc # "collect" =>
                  \A j \in (i + 1)..Len(Registered) :
                      /\ j \in DOMAIN pl_fetches
                      /\ pl_fetches[j].combination = Registered[j]

\* C12 witness: collection is over; a fetcher raised after pools had been
\* collected, and a later combination's fetcher returned pools.
FetcherExceptionWitness ==
    /\ pl_pc = "compute"
    /\ \E i, j \in DOMAIN pl_fetches :
          /\ i < j
          /\ pl_fetches[i].raised
          /\ pl_fetches[i].before # <<>>
          /\ pl_fetches[j].pools # <<>>

\* A price with 0 in the place of unknown.
ZeroForUnknown(price) == IF price = UnknownPrice THEN 0 ELSE price

\* C13 (as stated): with a token price the oracle reported as unknown,
\* calculate_pool_metrics still returns a PoolMetrics, and its TVL is the
\* one computed with 0 as that token's price.
UnknownPriceCountsAsZero ==
    (mc_pc \in {"returned", "raised"} /\ \E t \in 1..2 : mc_prices[t] = UnknownPrice)
        => /\ mc_pc = "returned"
           /\ mc_out.tvl_usd =
                  _calculate_tvl(mc_pool, [t \in 1..2 |-> ZeroForUnknown(mc_prices[t])])

\* A get_prices call that went to the remote service (i), directly followed
\* by a get_prices call for the same symbols answered from the cache (j).
MissThenHit(i, j) ==
    /\ j = i + 1
    /\ po_hist[j].after >= i
    /\ po_hist[i].op = "get_prices"
    /\ po_hist[j].op = "get_prices"
    /\ po_hist[i].syms = po_hist[j].syms
    /\ po_hist[i].fetched # <<>>
    /\ po_hist[j].fetched = <<>>

\* C14 (as stated): the metrics calculator reads the same price for each
\* token of a pool from the map of a cache hit as from the map of the cache
\* miss that filled the cache.
CacheHitReadsSamePrice ==
    \A i, j \in DOMAIN po_hist :
        MissThenHit(i, j) =>
            \A k \in DOMAIN po_hist[i].syms :
                TokenPriceRead(po_hist[j].result, po_hist[j].syms[k])
                    = TokenPriceRead(po_hist[i].result, po_hist[i].syms[k])

\* C15 (as stated): the map a get_prices call returned has an entry for
\* every symbol it was asked for (under the symbol as given or in lower
\* case), whatever became of the remote lookup.
EveryRequestedSymbolHasEntry ==
    \A i \in DOMAIN po_hist :
        po_hist[i].op = "get_prices" =>
            \A k \in DOMAIN po_hist[i].syms :
                \/ po_hist[i].syms[k] \in DOMAIN po_hist[i].result
                \/ Lower(po_hist[i].syms[k]) \in DOMAIN po_hist[i].result

\* A cache entry a call's cache check read was there and younger than the
\* TTL when the call began.
Unexpired(entry, start) == entry # NoEntry /\ start - entry.ts < cache_ttl

\* The symbols a list holds.
Elements(s) == {s[i] : i \in DOMAIN s}

\* The upper-cased symbols of a completed call that its cache check found
\* no unexpired entry for.
Misses(h) == {Upper(h.syms[k]) : k \in {x \in DOMAIN h.syms : ~Unexpired(h.seen[x], h.start)}}

\* A completed get_prices call issued at most one remote lookup, for
\* exactly its misses, and none when it had no miss.
OneLookupOfMisses(h) ==
    /\ h.lookups <= 1
    /\ Elements(h.fetched) = Misses(h)
    /\ (Misses(h) = {}) = (h.lookups = 0)

\* The returned map holds the cached price of every cache hit.
HitsReturned(h) ==
    \A k \in DOMAIN h.syms :
        Unexpired(h.seen[k], h.start) =>
            /\ h.syms[k] \in DOMAIN h.result
            /\ h.result[h.syms[k]] = h.seen[k].price

LookupFailedFor(answered, key) ==
    key \notin DOMAIN answered \/ answered[key] = "bad"

\* The call of caller c returns in this step from a remote lookup.
LookupReturns(c) ==
    /\ po_call[c].op # "idle"
    /\ po_call'[c].op = "idle"
    /\ Len(po_hist') = Len(po_hist) + 1

\* C17, the frame: the step in which a remote lookup returns leaves the
\* cache slot of every symbol the lookup failed for as it was.
FailedLookupKeepsSlotStep ==
    \A c \in Callers :
        LookupReturns(c) =>
            \A key \in Elements(po_call[c].tofetch) :
                LookupFailedFor(po_hist'[Len(po_hist')].answered, key)
                    => po_cache'[key] = po_cache[key]

\* C17, the consequence: no cache slot holds unknown, and the call that
\* follows a failed lookup of a symbol (nothing having returned while that
\* lookup was under way) fetches the symbol again when asked for it.
FailedLookupFetchedAgain ==
    /\ \A key \in DOMAIN po_cache :
          po_cache[key] # NoEntry => po_cache[key].price # NoPrice
    /\ \A i, j \in DOMAIN po_hist :
          (j = i + 1 /\ po_hist[j].after >= i /\ po_hist[i].after = i - 1) =>
              \A key \in Elements(po_hist[i].fetched) :
                  (/\ LookupFailedFor(po_hist[i].answered, key)
                   /\ \E k \in DOMAIN po_hist[j].syms : Upper(po_hist[j].syms[k]) = key)
                      => key \in Elements(po_hist[j].fetched)

\* C17: a remote lookup that fails or omits a symbol leaves the symbol's
\* cache slot unchanged, nothing is cached as unknown, and the next call for
\* the symbol fetches again.
FailedLookupLeavesCache ==
    [][FailedLookupKeepsSlotStep]_vars /\ []FailedLookupFetchedAgain

\* C17 witness: a lookup came back without one of its symbols, the symbol's
\* slot is still empty, and the next call asked for it and fetched it again.
FailedLookupWitness ==
    /\ Len(po_hist) = 2
    /\ po_hist[2].after >= 1
    /\ po_hist[1].after = 0
    /\ \E key \in Elements(po_hist[1].fetched) :
          /\ key \notin DOMAIN po_hist[1].answered
          /\ key \in Elements(po_hist[2].fetched)
          /\ po_hist[2].seen[CHOOSE k \in DOMAIN po_hist[2].syms :
                                 Upper(po_hist[2].syms[k]) = key] = NoEntry

\* The price a completed call returned for an upper-cased symbol it
\* fetched, NoPrice when it returned none.
FetchedPrice(h, key) ==
    IF h.op = "get_price" THEN h.result
    ELSE IF Lower(key) \in DOMAIN h.result THEN h.result[Lower(key)] ELSE NoPrice

\* C18: a cache entry whose age has reached the TTL when a call checks the
\* cache is not served: the call fetches the symbol remotely; and a price
\* the call that returned last fetched is in the slot, with a timestamp
\* that is not older than that call.
ExpiredQuoteRefetched ==
    /\ \A i \in DOMAIN po_hist :
          \A k \in DOMAIN po_hist[i].syms :
              (/\ po_hist[i].seen[k] # NoEntry
               /\ po_hist[i].start - po_hist[i].seen[k].ts >= cache_ttl)
                  => /\ po_hist[i].lookups >= 1
                     /\ Upper(po_hist[i].syms[k]) \in Elements(po_hist[i].fetched)
    /\ po_hist # <<>> =>
          LET h == po_hist[Len(po_hist)]
          IN  \A key \in Elements(h.fetched) :
                  FetchedPrice(h, key) # NoPrice =>
                      /\ po_cache[key] # NoEntry
                      /\ po_cache[key].price = FetchedPrice(h, key)
                      /\ po_cache[key].ts >= h.start
                      /\ po_cache[key].ts <= po_now

\* C18 witness: a call found an entry exactly cache_ttl minutes old, fetched
\* the symbol again, and the slot now holds the fetched price with a
\* timestamp of the call's time.
ExpiredQuoteWitness ==
    /\ Len(po_hist) = 2
    /\ LET h == po_hist[2]
       IN  /\ h.seen[1] # NoEntry
           /\ h.start - h.seen[1].ts = cache_ttl
           /\ Upper(h.syms[1]) \in Elements(h.fetched)
           /\ FetchedPrice(h, Upper(h.syms[1])) # NoPrice
           /\ FetchedPrice(h, Upper(h.syms[1])) # h.seen[1].price
           /\ po_cache[Upper(h.syms[1])].ts >= h.start

\* C19: get_price never raises to its caller, and a lookup that failed
\* (empty response, no data for the symbol, unreadable data) makes it
\* return unknown.
GetPriceNeverRaises ==
    \A i \in DOMAIN po_hist :
        po_hist[i].op = "get_price" =>
            /\ ~po_hist[i].raised
            /\ (/\ po_hist[i].lookups >= 1
                /\ LookupFailedFor(po_hist[i].answered, Upper(po_hist[i].syms[1])))
                   => po_hist[i].result = NoPrice

\* C19 witness: a get_price whose lookup came back with unreadable price
\* data returned unknown.
GetPriceBadDataWitness ==
    \E i \in DOMAIN po_hist :
        /\ po_hist[i].op = "get_price"
        /\ po_hist[i].lookups >= 1
        /\ Upper(po_hist[i].syms[1]) \in DOMAIN po_hist[i].answered
        /\ po_hist[i].answered[Upper(po_hist[i].syms[1])] = "bad"
        /\ po_hist[i].result = NoPrice
        /\ ~po_hist[i].raised

\* C20 (as stated): a get_price that went to the remote service returns
\* unknown only after the lookup was retried until the retries were used
\* up: 1 + max_retries lookups.
UnknownOnlyAfterRetries ==
    \A i \in DOMAIN po_hist :
        (/\ po_hist[i].op = "get_price"
         /\ po_hist[i].lookups >= 1
         /\ po_hist[i].result = NoPrice)
            => po_hist[i].lookups = OracleMaxRetries + 1

\* The invocations of rt_log that raised.
FailedInvocations == {i \in 1..Len(rt_log) : rt_log[i] \in Exceptions}

\* C21: in the retry wrapper the wait after failed attempt k (0-based,
\* k < max_retries) is delay * 2^k, the waits are exactly those of the failed
\* attempts before the final one (none follows the final failed attempt), and
\* an invocation that returns normally ends the call at once: it is the last
\* invocation and the wrapper has returned its result.
RetryBackoffDoubles ==
    /\ \A k \in 1..Len(rt_sleeps) : rt_sleeps[k] = rt_delay * (2 ^ (k - 1))
    /\ Len(rt_sleeps) =
          IF rt_pc = "sleep" THEN Cardinality(FailedInvocations) - 1
          ELSE Min(Cardinality(FailedInvocations), rt_max)
    /\ \A i \in 1..Len(rt_log) :
          rt_log[i] = "ok" => /\ i = Len(rt_log)
                              /\ rt_pc = "returned"
                              /\ rt_out = "ok"
    /\ rt_pc = "raised" => Len(rt_sleeps) = Len(rt_log) - 1

\* Every attempt of a call with three retries failed: the wrapper waited
\* delay, 2 * delay and 4 * delay, and raised without a fourth wait.
RetryBackoffWitness ==
    /\ rt_pc = "raised"
    /\ rt_max = 3
    /\ rt_sleeps = <<rt_delay, 2 * rt_delay, 4 * rt_delay>>
    /\ Len(rt_log) = 4

\* The computations of the current batch that have started and not finished.
InFlight(tasks) == {k \in DOMAIN tasks : tasks[k] = "running"}

\* A step that starts computations.
StartsComputations == InFlight(ba_tasks') \ InFlight(ba_tasks) # {}

\* C22: calculate_all_metrics has at most batch_size (10) computations in
\* flight, all of them of the current batch; computations start only at the
\* head of the loop, when none is in flight, and the loop moves on to the
\* next batch only from the pause that follows a batch whose computations
\* have all finished.
BatchesStrictlySequential ==
    /\ [](/\ Cardinality(InFlight(ba_tasks)) <= batch_size
          /\ Len(ba_tasks) <= batch_size
          /\ InFlight(ba_tasks) # {} => ba_pc = "gather"
          /\ \A k \in DOMAIN ba_tasks : ba_i + k <= ba_n)
    /\ [][/\ StartsComputations =>
                /\ ba_pc = "loop"
                /\ InFlight(ba_tasks) = {}
                /\ ba_tasks = <<>>
          /\ ba_i' # ba_i =>
                /\ ba_pc = "pause"
                /\ ba_i' = ba_i + batch_size
                /\ InFlight(ba_tasks) = {}
                /\ Len(ba_tasks) = Min(batch_size, ba_n - ba_i)]_vars

\* Twelve pools: the second batch, of two pools, is in flight after the
\* first batch of ten was gathered.
BatchesSequentialWitness ==
    /\ ba_n = 12
    /\ ba_i = batch_size
    /\ ba_pc = "gather"
    /\ InFlight(ba_tasks) = {1, 2}
    /\ Len(ba_all_metrics) > 0

\* organize_by_protocol has run on pl_all_metrics.
Organized == pl_pc = "export" \/ pl_out.kind \in {"filename", "report_error", "io_error"}

\* group lists entries of all_metrics, each position of all_metrics at most
\* once, entries of equal TVL in their order in all_metrics.
TakenInOrder(group, all_metrics) ==
    \E f \in [DOMAIN group -> DOMAIN all_metrics] :
        /\ \A i \in DOMAIN group : all_metrics[f[i]] = group[i]
        /\ \A i, j \in DOMAIN group : i < j => f[i] # f[j]
        /\ \A i, j \in DOMAIN group :
              i < j /\ group[i].tvl_usd = group[j].tvl_usd => f[i] < f[j]

\* C23: organize_by_protocol returns a partition of its input: the groups
\* are keyed by the protocols that occur, none is empty, every PoolMetrics
\* is in the group of its own protocol exactly once, and every group is
\* sorted by non-increasing tvl_usd with entries of equal TVL in input order.
OrganizePartitionsSorted ==
    Organized =>
        /\ DOMAIN pl_breakdown = {pl_all_metrics[i].protocol : i \in DOMAIN pl_all_metrics}
        /\ \A p \in DOMAIN pl_breakdown :
              LET group == pl_breakdown[p]
              IN /\ group # <<>>
                 /\ \A i \in DOMAIN group : group[i].protocol = p
                 /\ Len(group) =
                      Cardinality({i \in DOMAIN pl_all_metrics : pl_all_metrics[i].protocol = p})
                 /\ TakenInOrder(group, pl_all_metrics)
                 /\ \A i, j \in DOMAIN group :
                       i < j => group[i].tvl_usd >= group[j].tvl_usd

\* Four metrics in two groups: one group holds two entries of equal TVL, the
\* other two entries that the sort exchanged.
OrganizeWitness ==
    /\ pl_pc = "export"
    /\ Len(pl_all_metrics) = 4
    /\ \E p, q \in DOMAIN pl_breakdown :
          /\ p # q
          /\ Len(pl_breakdown[p]) = 2
          /\ pl_breakdown[p][1].tvl_usd = pl_breakdown[p][2].tvl_usd
          /\ pl_breakdown[p][1] # pl_breakdown[p][2]
          /\ Len(pl_breakdown[q]) = 2
          /\ pl_breakdown[q][1].tvl_usd > pl_breakdown[q][2].tvl_usd
          /\ \E i, j \in DOMAIN pl_all_metrics :
                /\ i < j
                /\ pl_all_metrics[i] = pl_breakdown[q][2]
                /\ pl_all_metrics[j] = pl_breakdown[q][1]

\* C24: for fixed pools and a fixed answer of the price service the grouped
\* output of a batch is the same under every interleaving of its concurrent
\* computations: it is the output of the run in which the computations take
\* place one after the other.
GroupedOutputDeterministic ==
    ga_pc = "organized" =>
        ga_out = organize_by_protocol(OneByOne(ga_pools, ga_resp, GatherPools).all_metrics)

\* The step writes slot key of the price cache.
CacheWritten(key) == po_cache'[key] # po_cache[key]

\* Slot key holds the price read from what response h quoted for the very
\* symbol key, stamped with the time now.
WrittenBy(entry, h, key, now) ==
    /\ key \in Elements(h.fetched)
    /\ key \in DOMAIN h.quoted
    /\ h.quoted[key].kind # "bad"
    /\ entry = [price |-> ParsePrice(h.quoted[key]), ts |-> now]

\* C25: under every interleaving of concurrent get_price and get_prices
\* calls, a slot of the price cache is written only in the step in which a
\* lookup of its symbol returns, and then as a whole, with the price that
\* response quoted for that symbol and the time of the write, whatever the
\* slot held before; so every entry is the (price, timestamp) pair of one
\* lookup of its own symbol.
CacheEntriesWhole ==
    /\ [](\A key \in CacheKeys :
             po_cache[key] # NoEntry =>
                 \E i \in DOMAIN po_hist :
                     \E t \in po_hist[i].start..po_now :
                         WrittenBy(po_cache[key], po_hist[i], key, t))
    /\ [][\A key \in CacheKeys :
             CacheWritten(key) =>
                 /\ Len(po_hist') = Len(po_hist) + 1
                 /\ WrittenBy(po_cache'[key], po_hist'[Len(po_hist')], key, po_now)]_vars

\* Two calls looked up the same symbol while both were in flight; the one
\* that returned last replaced the entry the other had written with its own
\* price.
CacheLastWriterWitness ==
    /\ Len(po_hist) = 2
    /\ po_hist[2].after = 0
    /\ \E key \in CacheKeys :
          /\ key \in Elements(po_hist[1].fetched) \cap Elements(po_hist[2].fetched)
          /\ key \in DOMAIN po_hist[1].quoted \cap DOMAIN po_hist[2].quoted
          /\ po_hist[1].quoted[key].kind = "value"
          /\ po_hist[2].quoted[key].kind = "value"
          /\ po_hist[1].quoted[key].value # po_hist[2].quoted[key].value
          /\ po_cache[key].price = po_hist[2].quoted[key].value
          /\ \E other \in CacheKeys \ {key} :
                /\ po_cache[other] # NoEntry
                /\ po_cache[other].price # po_cache[key].price

\* The network component of the risk score of a pool that lives on chain.
ChainRisk(chain) ==
    CASE chain = "ethereum" -> 0
      [] chain \in {"polygon", "arbitrum"} -> 3
      [] OTHER -> 7

\* The TVL component of the risk score: 0 above $50M, 10 above $10M, 20
\* above $1M, else 30.
BandRisk(tvl_usd) ==
    CASE ~RLe(tvl_usd, RInt(50000000)) -> 0
      [] RLe(tvl_usd, RInt(50000000)) /\ ~RLe(tvl_usd, RInt(10000000)) -> 10
      [] RLe(tvl_usd, RInt(10000000)) /\ ~RLe(tvl_usd, RInt(1000000)) -> 20
      [] OTHER -> 30

\* C26: the risk score of every pool is the sum, capped at 100, of the IL
\* component min(2 * IL_7d, 40), the TVL component of its band, the protocol
\* component (0, 5 or 15) and the network component (0, 3 or 7) of the
\* network the pool itself is on; it lies in [0, 100].
RiskScoreFromOwnNetwork ==
    mc_pc = "returned" =>
        /\ mc_out.risk_score =
              RMin(RAdd(RMin(RMul(RInt(2), mc_out.impermanent_loss_7d), RInt(40)),
                        RInt(BandRisk(mc_out.tvl_usd) + ProtocolRisk(mc_pool)
                                 + ChainRisk(mc_pool.chain))),
                   RInt(100))
        /\ ProtocolRisk(mc_pool) \in {0, 5, 15}
        /\ RLe(RInt(0), mc_out.risk_score)
        /\ RLe(mc_out.risk_score, RInt(100))

\* C27: a TVL the source supplies (tvl_usd > 0) is used unchanged; otherwise
\* the computed TVL is the sum of reserve * price over every token of the
\* pool, the third coin of a stable-swap pool with three coins included.
TvlSumsEveryToken ==
    (mc_pc = "returned" /\ \A t \in 1..2 : mc_prices[t] # UnknownPrice) =>
        mc_out.tvl_usd =
            IF mc_pool.tvl_usd > 0 THEN RInt(mc_pool.tvl_usd)
            ELSE RInt(mc_pool.reserve0 * mc_prices[1]
                        + mc_pool.reserve1 * mc_prices[2]
                        + mc_pool.reserve2 * mc_pool.price2)

\* The stable-swap pool of the scenario: a Curve pool of two coins with
\* reserves of 1,000,000 each, both priced 1, fees of 40 a day and no TVL
\* figure from the source.
StableSwapScenario ==
    /\ mc_pc = "returned"
    /\ mc_pool.protocol = "Curve"
    /\ mc_pool.symbols = <<"USDC", "USDT">>
    /\ mc_pool.reserve0 = 1000000
    /\ mc_pool.reserve1 = 1000000
    /\ mc_pool.reserve2 = 0
    /\ mc_pool.tvl_usd = 0
    /\ mc_pool.fees_24h = 40
    /\ mc_prices = <<1, 1>>

\* C28: for the stable-swap pool of the scenario calculate_pool_metrics
\* gives a TVL of 2,000,000, an apr_base of 0.73, an impermanent_loss_7d of
\* 0.7 (0.1 a day for 7 days) and an IL component of the risk score of 1.4.
StableSwapScenarioValues ==
    StableSwapScenario =>
        /\ mc_out.tvl_usd = RInt(2000000)
        /\ mc_out.apr_base = Rat(73, 100)
        /\ mc_out.impermanent_loss_7d = Rat(7, 10)
        /\ IlRisk(mc_out.impermanent_loss_7d) = Rat(14, 10)

\* ((1 + apr / 36500) ** 365 - 1) * 100 for an APR in percent, 0 for an APR
\* that is not positive.
ApyOfPercent(apr) ==
    IF apr.n > 0 THEN Compounded(RDiv(apr, RInt(36500))) ELSE Compounded(RInt(0))

\* C29: calculate_apy takes an APR in percent and returns
\* ((1 + apr / 36500)^365 - 1) * 100 for apr > 0 and 0 otherwise: apy_base
\* is that of apr_base, apy_total that of apr_base + apr_rewards.  The
\* compounding is strictly increasing in the daily rate, so two results are
\* equal exactly when their daily rates are.
ApyCompoundsPercentApr ==
    mc_pc = "returned" =>
        /\ mc_out.apy_base = ApyOfPercent(mc_out.apr_base)
        /\ mc_out.apy_total = ApyOfPercent(RAdd(mc_out.apr_base, mc_out.apr_rewards))

\* The fee rate fees are estimated with: 0.3% for SushiSwap, 0.25% for
\* PancakeSwap, the fee tier / 1,000,000 for Uniswap V3 and the pool's fee
\* for Curve, which is 0.04% unless the source gave one.
EstimationRate(pool) ==
    CASE pool.protocol = "SushiSwap" -> Rat(3, 1000)
      [] pool.protocol = "PancakeSwap" -> Rat(25, 10000)
      [] pool.protocol = "Uniswap V3" -> RDiv(pool.fee, RInt(1000000))
      [] pool.protocol = "Curve" -> pool.fee

\* fees * 365 / tvl * 100
AnnualisedPercent(fees, tvl) == RMul(RDiv(RMul(fees, RInt(365)), tvl), RInt(100))

\* C30: apr_base is fees_24h * 365 / TVL * 100 when fees_24h > 0 and
\* TVL > 0; otherwise, with TVL > 0, the same formula on fees estimated as
\* volume_24h times the fee rate of the pool's protocol; a volume of
\* 1,000,000 at 0.3% and a TVL of 5,000,000 gives 21.9.
BaseAprFromFeesOrVolume ==
    mc_pc = "returned" =>
        /\ mc_out.tvl_usd.n > 0 =>
              mc_out.apr_base =
                  IF mc_pool.fees_24h > 0
                     THEN AnnualisedPercent(RInt(mc_pool.fees_24h), mc_out.tvl_usd)
                     ELSE AnnualisedPercent(RMul(RInt(mc_pool.volume_24h),
                                                 EstimationRate(mc_pool)),
                                            mc_out.tvl_usd)
        /\ (/\ mc_pool.protocol = "SushiSwap"
            /\ mc_pool.fees_24h = 0
            /\ mc_pool.volume_24h = 1000000
            /\ mc_out.tvl_usd = RInt(5000000)) => mc_out.apr_base = Rat(219, 10)
        /\ (/\ mc_pool.protocol = "Curve"
            /\ mc_pool.fee = Rat(4, 10000)
            /\ mc_pool.fees_24h = 0
            /\ mc_pool.volume_24h = 1000000
            /\ mc_out.tvl_usd = RInt(5000000)) => mc_out.apr_base = Rat(292, 100)

\* A SushiSwap pool without a fee figure, with a volume of 1,000,000 and
\* a TVL of 5,000,000: fees are estimated at 3,000 and apr_base is 21.9.
BaseAprEstimatedWitness ==
    /\ mc_pc = "returned"
    /\ mc_pool.protocol = "SushiSwap"
    /\ mc_pool.fees_24h = 0
    /\ mc_pool.volume_24h = 1000000
    /\ mc_out.tvl_usd = RInt(5000000)
    /\ mc_out.apr_base = Rat(219, 10)

\* C31: get_top_pools(limit) never returns more than `limit` pools, whichever
\* fetcher is called and whichever of its tiers supplied the data, also for a
\* limit below config.MAX_POOLS_PER_DEX.
ReturnsAtMostLimit ==
    ft_pc = "returned" => Len(ft_out) <= ft_limit

\* C32: every pool a fetcher returns to the orchestrator, from its primary
\* source or from a fallback, has a tvl_usd of at least
\* config.MIN_TVL_THRESHOLD.
ReturnedPoolsMeetThreshold ==
    ft_pc = "returned" =>
        \A i \in 1..Len(ft_out) : ft_out[i].tvl >= MIN_TVL_THRESHOLD

\* The PancakeSwap fetcher returned pools of its last fallback, which had
\* handed it a pool below the threshold as well.
BelowThresholdDroppedWitness ==
    /\ ft_pc = "returned"
    /\ ft_proto = "pancakeswap"
    /\ ft_out # <<>>
    /\ ft_log # <<>>
    /\ ft_log[Len(ft_log)].tier = "pancake_defillama"
    /\ \E i \in 1..Len(ft_log[Len(ft_log)].pools) :
          ft_log[Len(ft_log)].pools[i].tvl < MIN_TVL_THRESHOLD

\* The positions of the entries of a response that qualify, in the order of
\* the response.
QualifyingEntries(entries) ==
    SelectSeq(Indices(entries), LAMBDA i : WantedEntry(entries[i]))

\* C38: the threshold filter comes before the cut at the limit: when the
\* source that answered supplies at least `limit` pools that meet the
\* threshold, exactly `limit` pools are returned, the first `limit` that
\* qualify in the order of the source.
FilterBeforeTruncate ==
    (/\ ft_pc = "returned"
     /\ ft_resp.status = "ok"
     /\ ~TagFilterRaises(ft_resp.entries)
     /\ Len(QualifyingEntries(ft_resp.entries)) >= ft_limit)
        => /\ Len(ft_out) = ft_limit
           /\ \A k \in 1..ft_limit :
                 ft_out[k].addr = QualifyingEntries(ft_resp.entries)[k]

\* C33: a PoolMetrics carries the identity of the pool it was computed
\* from: the pool's protocol, the pool's address and the network of the
\* fetcher that produced the pool.
MetricsCarryPoolIdentity ==
    mc_pc = "returned" =>
        /\ mc_out.protocol = mc_pool.protocol
        /\ mc_out.pool_address = mc_pool.address
        /\ mc_out.network = mc_pool.chain

\* C34: in every pool record a tier of a fetcher builds, there are as many
\* reserves as token symbols (for Curve: len(balances) = len(coin_symbols)).
ReservesMatchSymbols ==
    (pr_pc = "parsed" /\ pr_pool.kind = "pool")
        => Len(pr_pool.reserves) = Len(pr_pool.symbols)

\* The fields of an entry that the parser of a tier reads for the record's
\* TVL, volume, fees and reserves.
FieldsRead(tier) ==
    CASE tier \in {"uniswap_subgraph", "sushi_api"} -> {"tvl", "volume", "fees"}
      [] tier \in {"sushi_subgraph", "pancake_subgraph"} -> {"tvl", "volume"}
      [] tier \in {"curve_api", "pancake_api"} -> {"tvl", "volume", "reserve"}
      [] tier \in {"curve_defillama", "pancake_defillama"} -> {"tvl"}

\* C35: a numeric field (TVL, volume, fees, reserve) that the response lacks
\* is recorded in the pool record as unknown, which differs from the record
\* of a reported 0.
MissingFieldRecordedUnknown ==
    (pr_pc = "parsed" /\ pr_pool.kind = "pool") =>
        /\ ("tvl" \in FieldsRead(pr_tier) /\ pr_entry.tvl = Absent)
              => pr_pool.tvl_usd # RInt(0)
        /\ ("volume" \in FieldsRead(pr_tier) /\ pr_entry.volume = Absent)
              => pr_pool.volume_24h # RInt(0)
        /\ ("fees" \in FieldsRead(pr_tier) /\ pr_entry.fees = Absent)
              => pr_pool.fees_24h # RInt(0)
        /\ ("reserve" \in FieldsRead(pr_tier) /\ pr_entry.reserve = Absent)
              => \A i \in 1..Len(pr_pool.reserves) : pr_pool.reserves[i] # RInt(0)

\* C36: liquidity_depth is one of 2, 4, 6, 8, 10, does not decrease as the
\* TVL grows, and follows the TVL bands of the risk score: a TVL in the same
\* band of the risk score has the same depth.
LiquidityDepthFollowsRiskBands ==
    mc_pc = "returned" =>
        /\ mc_out.liquidity_depth \in {2, 4, 6, 8, 10}
        /\ \A tvl \in ReportedTvls :
              LET depth == _calculate_liquidity_depth(mc_pool, RInt(tvl))
              IN /\ RLe(RInt(tvl), mc_out.tvl_usd) => depth <= mc_out.liquidity_depth
                 /\ TvlRisk(RInt(tvl)) = TvlRisk(mc_out.tvl_usd)
                       => depth = mc_out.liquidity_depth

\* Denominators on both sides of 0.
RiskSamples == {Rat(0 - 1, 10), RInt(0), Rat(1, 10), RInt(7)}

\* C37: sharpe_ratio is (apy_total - 5) / impermanent_loss_7d, 5 being
\* risk_free_rate * 100, when impermanent_loss_7d > 0; it is None exactly
\* when that denominator is <= 0.
SharpeRatioOverImpermanentLoss ==
    mc_pc = "returned" =>
        /\ mc_out.sharpe_ratio =
              IF mc_out.impermanent_loss_7d.n > 0
                 THEN [kind |-> "float", apy |-> mc_out.apy_total,
                       free |-> RInt(5), risk |-> mc_out.impermanent_loss_7d]
                 ELSE [kind |-> "None"]
        /\ \A risk \in RiskSamples :
              LET ratio == _calculate_sharpe_ratio(mc_out.apy_total, risk)
              IN /\ (ratio.kind = "None") <=> (risk.n <= 0)
                 /\ risk.n > 0 => ratio = [kind |-> "float", apy |-> mc_out.apy_total,
                                           free |-> RInt(5), risk |-> risk]

\* A pool with a positive total APY and a 7-day impermanent loss of 7: its
\* Sharpe ratio is (apy_total - 5) / 7.
SharpeRatioWitness ==
    /\ mc_pc = "returned"
    /\ mc_out.apy_total.daily_rate.n > 0
    /\ mc_out.impermanent_loss_7d = RInt(7)
    /\ mc_out.sharpe_ratio.kind = "float"
    /\ mc_out.sharpe_ratio.risk = RInt(7)
    /\ mc_out.sharpe_ratio.free = RInt(5)

\* The symbols coroutine k of the batch has asked the remote service for.
FetchedBy(k) ==
    IF ga_task[k].pc = "created" THEN {} ELSE Elements(ga_task[k].tofetch)

\* C39: however the computations of a batch interleave, a symbol without a
\* fresh cache entry is asked of the remote service at most once: no two
\* coroutines of the batch fetch the same symbol.
BatchFetchesSymbolOnce ==
    \A j \in DOMAIN ga_task : \A k \in DOMAIN ga_task :
        j # k => FetchedBy(j) \cap FetchedBy(k) = {}

====
